---- MODULE Spec2Model ----
(***************************************************************************)
(* The quantity types of link_engineering/units.py (Power, Frequency,      *)
(* Distance, Velocity, Angle): keyword constructors, the getset and reify  *)
(* descriptors that compute and cache unit views, and the Angle accessors. *)
(*                                                                         *)
(* Magnitudes are exact: a number is a monomial                            *)
(*      (n/d) * 10^(x/10) * AU_M^au * tau^t * C^c                          *)
(* so that the large constants of constants.py stay symbolic and the       *)
(* decibel conversions 10^(v/10) and 10*log10(v) are computed, not assumed.*)
(* Rounding of IEEE doubles is outside the model.                          *)
(***************************************************************************)
EXTENDS Integers, Sequences, FiniteSets, TLC

----------------------------------------------------------------------------
(* Exact arithmetic *)

Abs(i) == IF i < 0 THEN -i ELSE i

RECURSIVE GCD(_, _)
GCD(a, b) == IF b = 0 THEN a ELSE GCD(b, a % b)

Zero == [n |-> 0, d |-> 1, x |-> 0, au |-> 0, t |-> 0, c |-> 0]

\* 2 and 5 leave the denominator: 1/2 = 5 * 10^-1, 1/5 = 2 * 10^-1
RECURSIVE ClearDen(_, _, _)
ClearDen(n, d, x) ==
    IF d % 2 = 0 THEN ClearDen(n * 5, d \div 2, x - 10)
    ELSE IF d % 5 = 0 THEN ClearDen(n * 2, d \div 5, x - 10)
    ELSE <<n, d, x>>

\* tens leave the numerator
RECURSIVE PullTens(_, _, _)
PullTens(n, d, x) ==
    IF n % 10 = 0 THEN PullTens(n \div 10, d, x + 10) ELSE <<n, d, x>>

\* the unique representative of (n/d) * 10^(x/10) * AU_M^au * tau^t * C^c
Norm(n, d, x, au, t, c) ==
    IF n = 0 THEN Zero
    ELSE LET Rec(pt) == [n |-> pt[1], d |-> pt[2], x |-> pt[3], au |-> au, t |-> t, c |-> c]
             Tens(cd) == Rec(PullTens(cd[1], cd[2], cd[3]))
             Reduce(g) == Tens(ClearDen(n \div g, d \div g, x))
         IN  Reduce(GCD(Abs(n), d))

\* the rational p/q (q > 0) and the integer i
Rat(p, q) == Norm(p, q, 0, 0, 0, 0)
Int2Num(i) == Rat(i, 1)

Mul(a, b) ==
    Norm(a.n * b.n, a.d * b.d, a.x + b.x, a.au + b.au, a.t + b.t, a.c + b.c)

\* a / b for b # 0
Div(a, b) ==
    Norm((IF b.n < 0 THEN -1 ELSE 1) * a.n * b.d, a.d * Abs(b.n),
         a.x - b.x, a.au - b.au, a.t - b.t, a.c - b.c)

Neg(a) == [a EXCEPT !.n = -a.n]

RECURSIVE Pow10Int(_)
Pow10Int(k) == IF k = 0 THEN 1 ELSE 10 * Pow10Int(k - 1)

\* a number free of symbols whose power of ten is whole
IsPlain(a) == a.au = 0 /\ a.t = 0 /\ a.c = 0 /\ a.x % 10 = 0

\* a plain number as <<numerator, denominator>>
Frac(a) ==
    IF a.x >= 0 THEN <<a.n * Pow10Int(a.x \div 10), a.d>>
    ELSE <<a.n, a.d * Pow10Int((-a.x) \div 10)>>

\* a + b for plain a, b
Add(a, b) ==
    LET Sum(fa, fb) == Rat(fa[1] * fb[2] + fb[1] * fa[2], fa[2] * fb[2])
    IN  Sum(Frac(a), Frac(b))

Sub(a, b) == Add(a, Neg(b))

\* floor of a plain number (\div rounds towards minus infinity)
Floor(a) == LET Quot(f) == f[1] \div f[2] IN Quot(Frac(a))

Sign(a) == IF a.n > 0 THEN 1 ELSE IF a.n < 0 THEN -1 ELSE 0

AbsNum(a) == [a EXCEPT !.n = Abs(a.n)]

\* 10^a for a plain number a with 10*a whole: the exponent is kept in tenths
Pow10(a) ==
    LET f == Frac(Mul(a, Int2Num(10)))
    IN  [n |-> 1, d |-> 1, x |-> f[1], au |-> 0, t |-> 0, c |-> 0]

\* log10(a) for a = 10^(x/10)
HasLog10(a) == a.n = 1 /\ a.d = 1 /\ a.au = 0 /\ a.t = 0 /\ a.c = 0
Log10(a) == Rat(a.x, 10)

----------------------------------------------------------------------------
(* constants.py *)

AU_M  == [n |-> 1, d |-> 1, x |-> 0, au |-> 1, t |-> 0, c |-> 0]
AU_KM == Div(AU_M, Int2Num(1000))
DAY_S == Int2Num(86400)
tau   == [n |-> 1, d |-> 1, x |-> 0, au |-> 0, t |-> 1, c |-> 0]
C     == [n |-> 1, d |-> 1, x |-> 0, au |-> 0, t |-> 0, c |-> 1]

----------------------------------------------------------------------------
(* Python values: a float ("f"), a list of floats ("l", e repeated rep     *)
(* times), a numpy array ("a"), None, a missing attribute, or the          *)
(* exception an expression raised.                                         *)

F(num) == [k |-> "f", rep |-> 1, e |-> <<num>>]
L(seq) == [k |-> "l", rep |-> 1, e |-> seq]
A(seq) == [k |-> "a", rep |-> 1, e |-> seq]
Exc(name) == [k |-> name, rep |-> 0, e |-> <<>>]
NoneV  == Exc("None")
Absent == Exc("absent")

IsNum(v) == v.k \in {"f", "l", "a"}
IsExc(v) == v.k \in {"ValueError", "TypeError", "MemoryError",
                     "AttributeError", "WrongUnitError", "UnpackingError"}

\* functions._to_array: a value with a length becomes an array, a scalar a float64
ToArray(v) == IF v.k = "l" THEN [v EXCEPT !.k = "a"] ELSE v

\* v * k, k a Python int: a list is repeated, not scaled
PyMulInt(v, k) ==
    IF ~IsNum(v) THEN v
    ELSE IF v.k = "l"
         THEN IF k.au = 0
              THEN [v EXCEPT !.rep = v.rep * Frac(k)[1]]
              ELSE Exc("MemoryError")  \* AU_M copies of the list do not fit in memory
         ELSE [v EXCEPT !.e = [i \in DOMAIN v.e |-> Mul(v.e[i], k)]]

\* v * k, k a float
PyMulFloat(v, k) ==
    IF ~IsNum(v) THEN v
    ELSE IF v.k = "l" THEN Exc("TypeError")
         ELSE [v EXCEPT !.e = [i \in DOMAIN v.e |-> Mul(v.e[i], k)]]

\* v / k
PyDiv(v, k) ==
    IF ~IsNum(v) THEN v
    ELSE IF v.k = "l" THEN Exc("TypeError")
         ELSE [v EXCEPT !.e = [i \in DOMAIN v.e |-> Div(v.e[i], k)]]

\* k / v
PyRDiv(k, v) ==
    IF ~IsNum(v) THEN v
    ELSE IF v.k = "l" THEN Exc("TypeError")
         ELSE [v EXCEPT !.e = [i \in DOMAIN v.e |-> Div(k, v.e[i])]]

\* v + k and v - k
PyAdd(v, k) ==
    IF ~IsNum(v) THEN v
    ELSE IF v.k = "l" THEN Exc("TypeError")
         ELSE [v EXCEPT !.e = [i \in DOMAIN v.e |-> Add(v.e[i], k)]]

PySub(v, k) == PyAdd(v, Neg(k))

\* np.power(10, v) and np.log10(v): a list argument is taken as an array
NpPow10(v) ==
    IF ~IsNum(v) THEN v
    ELSE [v EXCEPT !.k = IF @ = "l" THEN "a" ELSE @,
                   !.e = [i \in DOMAIN v.e |-> Pow10(v.e[i])]]

NpLog10(v) ==
    IF ~IsNum(v) THEN v
    ELSE [v EXCEPT !.k = IF @ = "l" THEN "a" ELSE @,
                   !.e = [i \in DOMAIN v.e |-> Log10(v.e[i])]]

----------------------------------------------------------------------------
(* The classes: their descriptors and instance attributes *)

Classes == {"Power", "Frequency", "Distance", "Velocity", "Angle"}

\* names bound to a getset descriptor in the class body
GetsetNames(cls) ==
    CASE cls = "Power"     -> {"kW", "W", "mW", "dBw", "dBm"}
      [] cls = "Frequency" -> {"Hz", "KHz", "MHz", "GHz"}
      [] cls = "Distance"  -> {"au", "km", "m", "cm", "mm"}
      [] cls = "Velocity"  -> {"au_per_d", "km_per_s", "m_per_s"}
      [] cls = "Angle"     -> {"radians"}
      [] OTHER             -> {}

\* names bound to a reify descriptor in the class body
ReifyNames(cls) ==
    IF cls = "Angle" THEN {"_hours", "_degrees", "hours", "degrees"} ELSE {}

\* attributes only __init__ sets
PlainNames(cls) == IF cls = "Frequency" THEN {"wl"} ELSE {}

AttrNames(cls) == GetsetNames(cls) \cup ReifyNames(cls) \cup PlainNames(cls)

\* getset(name, docstring, conversion_factor, core_unit): cf is "none", a Python
\* "int" or "float" k, or "func" (a callable with an inverse)
NoFactor == [cf |-> "none", k |-> Zero, core |-> "None"]
Getset(cls, name) ==
    CASE cls = "Power" /\ name = "kW"  -> [cf |-> "float", k |-> Rat(1, 1000), core |-> "W"]
      [] cls = "Power" /\ name = "mW"  -> [cf |-> "float", k |-> Int2Num(1000), core |-> "W"]
      [] cls = "Power" /\ name = "dBw" -> [cf |-> "func", k |-> Zero, core |-> "W"]
      [] cls = "Power" /\ name = "dBm" -> [cf |-> "func", k |-> Zero, core |-> "W"]
      [] cls = "Frequency" /\ name = "Hz"  ->
             [cf |-> "int", k |-> Int2Num(1000000000), core |-> "GHz"]
      [] cls = "Frequency" /\ name = "KHz" ->
             [cf |-> "int", k |-> Int2Num(1000000), core |-> "GHz"]
      [] cls = "Frequency" /\ name = "MHz" ->
             [cf |-> "int", k |-> Int2Num(1000), core |-> "GHz"]
      [] cls = "Distance" /\ name = "au" -> [cf |-> "func", k |-> Zero, core |-> "m"]
      [] cls = "Distance" /\ name = "km" -> [cf |-> "float", k |-> Rat(1, 1000), core |-> "m"]
      [] cls = "Distance" /\ name = "cm" -> [cf |-> "int", k |-> Int2Num(100), core |-> "m"]
      [] cls = "Distance" /\ name = "mm" -> [cf |-> "int", k |-> Int2Num(1000), core |-> "m"]
      [] cls = "Velocity" /\ name = "km_per_s" ->
             [cf |-> "float", k |-> Div(AU_KM, DAY_S), core |-> "au_per_d"]
      [] cls = "Velocity" /\ name = "m_per_s" ->
             [cf |-> "float", k |-> Div(AU_M, DAY_S), core |-> "au_per_d"]
      [] OTHER -> NoFactor

\* the callable conversion_factor of a "func" getset: unit value -> core value
Forward(cls, name, a) ==
    CASE name = "dBw" -> NpPow10(PyDiv(a, Int2Num(10)))
      [] name = "dBm" -> NpPow10(PyDiv(PySub(a, Int2Num(30)), Int2Num(10)))
      [] name = "au"  -> PyMulInt(a, AU_M)
      [] OTHER        -> Exc("TypeError")

\* Inverse with the 30 dB between watts and milliwatts left out
InverseWithoutOffset(cls, name, a) ==
    CASE name = "dBw" -> PyMulInt(NpLog10(a), Int2Num(10))
      [] name = "dBm" -> PyMulInt(NpLog10(a), Int2Num(10))
      [] name = "au"  -> PyDiv(a, AU_M)
      [] OTHER        -> Exc("TypeError")

\* its inverse= function: core value -> unit value
Inverse(cls, name, a) ==
    CASE name = "dBw" -> PyMulInt(NpLog10(a), Int2Num(10))
      [] name = "dBm" -> PyAdd(PyMulInt(NpLog10(a), Int2Num(10)), Int2Num(30))
      [] name = "au"  -> PyDiv(a, AU_M)
      [] OTHER        -> Exc("TypeError")

\* an instance: its class, its __dict__ (Absent: no entry), and for Angle the
\* preference and signed attributes ("absent": not set)
Blank(cls) ==
    [cls |-> cls, d |-> [a \in AttrNames(cls) |-> Absent],
     preference |-> "absent", signed |-> "absent"]
NoObj == Blank("none")

SetA(o, name, v) == [o EXCEPT !.d[name] = v]

----------------------------------------------------------------------------
(* Attribute access: the instance __dict__ first, then the descriptor of   *)
(* the class.  A result is [v |-> the value or the exception raised,       *)
(* o |-> the instance afterwards].                                         *)

\* getset.__get__ on an instance, the value computed from the core unit
GetsetValue(cls, name, corev) ==
    LET Convert(g) ==
            CASE g.cf = "func"  -> Inverse(cls, name, corev)
              [] g.cf = "int"   -> PyMulInt(corev, g.k)
              [] g.cf = "float" -> PyMulFloat(corev, g.k)
              [] OTHER          -> Exc("TypeError")
    IN  Convert(Getset(cls, name))

\* GetsetGet storing the value under the core unit's name as well
GetsetGetOverCore(o, name, corev) ==
    LET Cache(value) ==
            IF IsExc(value) THEN [v |-> value, o |-> o]
            ELSE [v |-> value,
                  o |-> SetA(SetA(o, name, value), Getset(o.cls, name).core, value)]
    IN  Cache(GetsetValue(o.cls, name, corev))

\* GetsetGet storing the core value in place of the converted one
GetsetGetCachesCore(o, name, corev) ==
    LET Cache(value) ==
            IF IsExc(value) THEN [v |-> value, o |-> o]
            ELSE [v |-> value, o |-> SetA(o, name, corev)]
    IN  Cache(GetsetValue(o.cls, name, corev))

\* getset.__get__ on an instance, the value stored in __dict__ and returned
GetsetGet(o, name, corev) ==
    LET Cache(value) ==
            IF IsExc(value) THEN [v |-> value, o |-> o]
            ELSE [v |-> value, o |-> SetA(o, name, value)]
    IN  Cache(GetsetValue(o.cls, name, corev))

\* reify.__get__: the method's value is stored under the method's name
ReifyGet(name, r) ==
    IF IsExc(r.v) THEN r ELSE [v |-> r.v, o |-> SetA(r.o, name, r.v)]

\* getattr(instance, self.core_unit) inside getset.__get__: the core unit's own
\* getset has no core unit, so when __dict__ lacks it getattr(instance, None) raises
ReadCore(o, core) ==
    IF core = "None" THEN Exc("TypeError")
    ELSE IF o.d[core] # Absent THEN o.d[core]
    ELSE Exc("TypeError")

\* getattr(o, name) for a name bound to a getset
ReadGetset(o, name) ==
    IF o.d[name] # Absent THEN [v |-> o.d[name], o |-> o]
    ELSE LET FromCore(corev) ==
                 IF IsExc(corev) THEN [v |-> corev, o |-> o]
                 ELSE GetsetGet(o, name, corev)
         IN  FromCore(ReadCore(o, Getset(o.cls, name).core))

\* Angle._hours and Angle._degrees: self.radians * 24.0 / tau, * 360.0 / tau
AngleUnguarded(o, name) ==
    LET Turns(r, k) == [v |-> PyDiv(PyMulFloat(r.v, k), tau), o |-> r.o]
    IN  Turns(ReadGetset(o, "radians"), Int2Num(IF name = "_hours" THEN 24 ELSE 360))

\* getattr(o, "_hours") and getattr(o, "_degrees") caching under hours and degrees
ReadUnguardedCachesPublic(o, name) ==
    IF o.d[name] # Absent THEN [v |-> o.d[name], o |-> o]
    ELSE ReifyGet(IF name = "_hours" THEN "hours" ELSE "degrees", AngleUnguarded(o, name))

\* getattr(o, "_hours") and getattr(o, "_degrees")
ReadUnguarded(o, name) ==
    IF o.d[name] # Absent THEN [v |-> o.d[name], o |-> o]
    ELSE ReifyGet(name, AngleUnguarded(o, name))

\* Angle.hours and Angle.degrees, the guarded accessors
AngleGuarded(o, name) ==
    IF o.preference = "absent" THEN [v |-> Exc("AttributeError"), o |-> o]
    ELSE IF o.preference # name THEN [v |-> Exc("WrongUnitError"), o |-> o]
    ELSE ReadUnguarded(o, IF name = "hours" THEN "_hours" ELSE "_degrees")

\* getattr(o, "hours") and getattr(o, "degrees")
ReadGuarded(o, name) ==
    IF o.d[name] # Absent THEN [v |-> o.d[name], o |-> o]
    ELSE ReifyGet(name, AngleGuarded(o, name))

\* getattr(o, name)
ReadAttr(o, name) ==
    IF name \in GetsetNames(o.cls) THEN ReadGetset(o, name)
    ELSE IF name \in {"_hours", "_degrees"} /\ o.cls = "Angle" THEN ReadUnguarded(o, name)
    ELSE IF name \in {"hours", "degrees"} /\ o.cls = "Angle" THEN ReadGuarded(o, name)
    ELSE IF name \in PlainNames(o.cls) /\ o.d[name] # Absent THEN [v |-> o.d[name], o |-> o]
    ELSE [v |-> Exc("AttributeError"), o |-> o]

----------------------------------------------------------------------------
(* Keyword constructors.  a maps each keyword to its argument (NoneV when  *)
(* it is not supplied).  A result is [v |-> NoneV or the exception raised, *)
(* msg |-> the words of the exception's message, o |-> the instance or     *)
(* NoObj].                                                                 *)

Raise(exc, msg) == [v |-> Exc(exc), msg |-> msg, o |-> NoObj]

\* self.<name> = v as the last statement of __init__: v may have raised
Store(o, name, v) ==
    IF IsExc(v) THEN [v |-> v, msg |-> <<>>, o |-> NoObj]
    ELSE [v |-> NoneV, msg |-> <<>>, o |-> SetA(o, name, v)]

PowerInit(a) ==
    LET self == Blank("Power")
    IN  IF a.kW # NoneV THEN
            Store(SetA(self, "kW", ToArray(a.kW)), "W", PyMulInt(a.kW, Int2Num(1000)))
        ELSE IF a.W # NoneV THEN
            Store(self, "W", ToArray(a.W))
        ELSE IF a.mW # NoneV THEN
            LET mW == ToArray(a.mW)
            IN  Store(SetA(self, "mW", mW), "W", PyDiv(mW, Int2Num(1000)))
        ELSE IF a.dBw # NoneV THEN
            LET dBw == ToArray(a.dBw)
            IN  Store(SetA(self, "dBw", dBw), "W", NpPow10(PyDiv(dBw, Int2Num(10))))
        ELSE IF a.dBm # NoneV THEN
            LET dBm == ToArray(a.dBm)
            IN  Store(SetA(self, "dBm", dBm), "W",
                      NpPow10(PyDiv(PySub(dBm, Int2Num(30)), Int2Num(10))))
        ELSE Raise("ValueError", <<"to", "construct", "a", "Frequency", "provide",
                                   "kW", "W", "mW", "or", "dB">>)

\* the branches of Frequency.__init__, before self.wl is set
FrequencyBranch(a) ==
    LET self == Blank("Frequency")
    IN  IF a.Hz # NoneV THEN
            Store(SetA(self, "Hz", ToArray(a.Hz)), "GHz", PyDiv(a.Hz, Int2Num(1000000000)))
        ELSE IF a.KHz # NoneV THEN
            LET KHz == ToArray(a.KHz)
            IN  Store(SetA(self, "KHz", KHz), "GHz", PyDiv(KHz, Int2Num(1000000)))
        ELSE IF a.MHz # NoneV THEN
            LET MHz == ToArray(a.MHz)
            IN  Store(SetA(self, "MHz", MHz), "GHz", PyDiv(MHz, Int2Num(1000)))
        ELSE IF a.GHz # NoneV THEN
            Store(self, "GHz", ToArray(a.GHz))
        ELSE Raise("ValueError", <<"to", "construct", "a", "Frequency", "provide",
                                   "Hz", "KHz", "MHz", "or", "GHz">>)

\* FrequencyInit dividing C by the gigahertz
FrequencyInitFromGHz(a) ==
    LET Wl(hz) ==
            IF IsExc(hz.v) THEN [v |-> hz.v, msg |-> <<>>, o |-> NoObj]
            ELSE Store(hz.o, "wl", PyRDiv(C, hz.v))
        Rest(b) == IF IsExc(b.v) THEN b ELSE Wl(ReadGetset(b.o, "GHz"))
    IN  Rest(FrequencyBranch(a))

FrequencyInit(a) ==
    LET Wl(hz) ==                               \* self.wl = C/self.Hz
            IF IsExc(hz.v) THEN [v |-> hz.v, msg |-> <<>>, o |-> NoObj]
            ELSE Store(hz.o, "wl", PyRDiv(C, hz.v))
        Rest(b) == IF IsExc(b.v) THEN b ELSE Wl(ReadGetset(b.o, "Hz"))
    IN  Rest(FrequencyBranch(a))

DistanceInit(a) ==
    LET self == Blank("Distance")
    IN  IF a.au # NoneV THEN
            Store(SetA(self, "au", ToArray(a.au)), "m", PyMulInt(a.au, AU_M))
        ELSE IF a.km # NoneV THEN
            LET km == ToArray(a.km)
            IN  Store(SetA(self, "km", km), "m", PyMulInt(km, Int2Num(1000)))
        ELSE IF a.m # NoneV THEN
            Store(self, "m", ToArray(a.m))
        ELSE IF a.cm # NoneV THEN
            Store(SetA(self, "cm", ToArray(a.cm)), "m", PyDiv(a.cm, Int2Num(100)))
        ELSE IF a.mm # NoneV THEN
            Store(SetA(self, "mm", ToArray(a.mm)), "m", PyDiv(a.mm, Int2Num(1000)))
        ELSE Raise("ValueError", <<"to", "construct", "a", "Distance", "provide",
                                   "au", "km", "or", "m">>)

VelocityInit(a) ==
    LET self == Blank("Velocity")
    IN  IF a.km_per_s # NoneV THEN
            LET km_per_s == ToArray(a.km_per_s)
            IN  Store(SetA(self, "km_per_s", km_per_s), "au_per_d",
                      PyDiv(PyMulFloat(km_per_s, DAY_S), AU_KM))
        ELSE IF a.au_per_d # NoneV THEN
            Store(self, "au_per_d", ToArray(a.au_per_d))
        ELSE Raise("ValueError", <<"to", "construct", "a", "Velocity", "provide",
                                   "au_per_d", "or", "km_per_s">>)

----------------------------------------------------------------------------
(* Angle *)

\* a (units, minutes, seconds) tuple argument, and an Angle passed as angle=
T(seq) == [k |-> "t", rep |-> 1, e |-> seq]
AnAngle(radians) == [radians EXCEPT !.k = IF @ = "f" THEN "Angle_f" ELSE "Angle_a"]
IsAngle(v) == v.k \in {"Angle_f", "Angle_a"}
RadiansOf(v) == [v EXCEPT !.k = IF @ = "Angle_f" THEN "f" ELSE "a"]

\* math.copysign(c, value): zero counts as positive
CopySign(c, value) == IF value.n < 0 THEN Neg(AbsNum(c)) ELSE AbsNum(c)

\* the loop of _unsexagesimalize over components i.. of the tuple
RECURSIVE UnsexLoop(_, _, _, _)
UnsexLoop(value, comps, i, factor) ==
    IF i > Len(comps) THEN value
    ELSE UnsexLoop(Add(value, Div(CopySign(comps[i], value), Int2Num(factor * 60))),
                   comps, i + 1, factor * 60)

\* _unsexagesimalize of (units, minutes, seconds) without copysign: each component
\* is added with the sign it comes with
UnsexagesimalizeSigned(v) ==
    IF v.k = "t"
    THEN F(Add(v.e[1], Add(Div(v.e[2], Int2Num(60)), Div(v.e[3], Int2Num(3600)))))
    ELSE v

Unsexagesimalize(v) ==
    IF v.k = "t" THEN F(UnsexLoop(v.e[1], v.e, 2, 1)) ELSE v

InstantiationInstructions ==
    <<"to", "instantiate", "an", "Angle", "try", "one", "of",
      "Angle", "angle", "another_angle", "Angle", "radians", "value",
      "Angle", "degrees", "value", "Angle", "hours", "value",
      "where", "value", "can", "be", "either", "a", "Python", "float",
      "a", "list", "of", "Python", "floats", "or", "a", "NumPy", "array", "of", "floats">>

AngleInit(a) ==
    LET self == Blank("Angle")
        preference == IF a.preference # "None" THEN a.preference
                      ELSE IF a.hours # NoneV THEN "hours"
                      ELSE "degrees"
        Done(o) == [v |-> NoneV, msg |-> <<>>,
                    o |-> [o EXCEPT !.preference = preference, !.signed = a.signed]]
    IN  IF a.angle # NoneV THEN
            IF ~IsAngle(a.angle) THEN Raise("ValueError", InstantiationInstructions)
            ELSE Done(SetA(self, "radians", RadiansOf(a.angle)))
        ELSE IF a.radians # NoneV THEN
            Done(SetA(self, "radians", ToArray(a.radians)))
        ELSE IF a.degrees # NoneV THEN
            LET Branch(degrees) ==
                    Done(SetA(SetA(self, "_degrees", degrees), "radians",
                              PyMulFloat(PyDiv(degrees, Int2Num(360)), tau)))
            IN  Branch(ToArray(Unsexagesimalize(a.degrees)))
        ELSE IF a.hours # NoneV THEN
            LET Branch(hours) ==
                    Done(SetA(SetA(self, "_hours", hours), "radians",
                              PyMulFloat(PyDiv(hours, Int2Num(24)), tau)))
            IN  Branch(ToArray(Unsexagesimalize(a.hours)))
        ELSE Done(self)

\* Angle.from_degrees(degrees, signed)
FromDegrees(deg, signed) ==
    LET New(degrees) ==
            [v |-> NoneV, msg |-> <<>>,
             o |-> [SetA(SetA(Blank("Angle"), "degrees", degrees), "radians",
                         PyMulFloat(PyDiv(degrees, Int2Num(360)), tau))
                    EXCEPT !.preference = "degrees", !.signed = signed]]
    IN  New(ToArray(Unsexagesimalize(deg)))

\* getset.__get__ on the class: the constructor it returns, applied to value
GetsetNew(cls, name, val) ==
    LET New(self, value, g) ==
            CASE g.cf = "none" -> [v |-> NoneV, msg |-> <<>>, o |-> self]
              [] g.cf = "func" -> Store(self, g.core, Forward(cls, name, value))
              [] OTHER         -> Store(self, g.core, PyDiv(value, g.k))
    IN  New(SetA(Blank(cls), name, ToArray(val)), ToArray(val), Getset(cls, name))

\* _sexagesimalize_to_float with the seconds cut off to whole seconds
SexFloatWholeSeconds(a) ==
    LET Parts(total, q) ==
            <<Int2Num(Sign(a)), Int2Num(q \div 60), Int2Num(q % 60),
              Int2Num(Floor(Sub(total, Int2Num(60 * q))))>>
        Split(total) == Parts(total, Floor(Div(total, Int2Num(60))))
    IN  Split(Mul(AbsNum(a), Int2Num(3600)))

\* _sexagesimalize_to_float of one number: <<sign, units, minutes, seconds>>
SexFloat(a) ==
    LET Parts(total, q) ==
            <<Int2Num(Sign(a)), Int2Num(q \div 60), Int2Num(q % 60),
              Sub(total, Int2Num(60 * q))>>
        \* divmod(n * 3600.0, 60.0)
        Split(total) == Parts(total, Floor(Div(total, Int2Num(60))))
    IN  Split(Mul(AbsNum(a), Int2Num(3600)))

\* _sexagesimalize_to_int without the + 0.5: the count is cut off, not rounded
SexIntTruncated(a, places) ==
    LET Parts(sgn, n, power) ==
            <<sgn, ((n \div power) \div 60) \div 60, ((n \div power) \div 60) % 60,
              (n \div power) % 60, n % power>>
        Signed(n, power) ==
            Parts(IF n > 0 THEN 1 ELSE IF n < 0 THEN -1 ELSE 0, Abs(n), power)
        Round(power) ==
            Signed(Floor(Mul(Int2Num(power * 3600), a)), power)
    IN  Round(Pow10Int(places))

\* _sexagesimalize_to_int of one number: <<sign, n, minutes, seconds, fraction>>
SexInt(a, places) ==
    LET Parts(sgn, n, power) ==
            <<sgn, ((n \div power) \div 60) \div 60, ((n \div power) \div 60) % 60,
              (n \div power) % 60, n % power>>
        Signed(n, power) ==
            Parts(IF n > 0 THEN 1 ELSE IF n < 0 THEN -1 ELSE 0, Abs(n), power)
        Round(power) ==
            Signed(Floor(Add(Mul(Int2Num(power * 3600), a), Rat(1, 2))), power)
    IN  Round(Pow10Int(places))

\* what the first field of the format string makes of sign: {0} of _dfmt and
\* _hfmt prints it as it is, {0:+>1} of _dsgn pads it on the left with "+" to
\* one character
FormatSign(fmt, sign) == IF fmt = "_dsgn" /\ sign = "" THEN "+" ELSE sign

\* _sfmt with the sign of the value itself instead of the sign of the rounded value
SfmtSignOfValue(fmt, a, places) ==
    LET Fields(x, sign) ==
            [fmt |-> fmt, sign |-> sign, lead |-> FormatSign(fmt, sign),
             h |-> x[2], m |-> x[3], s |-> x[4], fraction |-> x[5], places |-> places]
        Args(x) == Fields(x, IF a.n < 0 THEN "-" ELSE "")
    IN  Args(SexInt(a, places))

\* a float that is not a number, and math.isnan
NaN == [n |-> 0, d |-> 0, x |-> 0, au |-> 0, t |-> 0, c |-> 0]
isnan(a) == a.d = 0

\* _sfmt that decomposes a value that is not a number as it would zero
SfmtNanAsZero(fmt, a, places) ==
    LET Fields(x, sign) ==
            [fmt |-> fmt, sign |-> sign, lead |-> FormatSign(fmt, sign),
             h |-> x[2], m |-> x[3], s |-> x[4], fraction |-> x[5], places |-> places]
        Args(x) == Fields(x, IF x[1] < 0 THEN "-" ELSE "")
    IN  Args(SexInt(IF a.d = 0 THEN Zero ELSE a, places))

\* _sfmt: the text 'nan' for a value that is not a number, and otherwise the
\* arguments handed to the format string fmt, and lead, the text the string starts
\* with before the two digits of the hours or degrees
Sfmt(fmt, a, places) ==
    LET Fields(x, sign) ==
            [fmt |-> fmt, sign |-> sign, lead |-> FormatSign(fmt, sign),
             h |-> x[2], m |-> x[3], s |-> x[4], fraction |-> x[5], places |-> places]
        Args(x) == Fields(x, IF x[1] < 0 THEN "-" ELSE "")
    IN  IF isnan(a) THEN [text |-> "nan"] ELSE Args(SexInt(a, places))

TupleV(seq) == [k |-> "tuple", rep |-> 1, e |-> seq]

\* the tuple signed_hms and signed_dms return
SignedTuple(v) ==
    LET Column(parts, j) == [v EXCEPT !.e = [i \in DOMAIN parts |-> parts[i][j]]]
        Columns(parts) == TupleV(<<Column(parts, 1), Column(parts, 2),
                                   Column(parts, 3), Column(parts, 4)>>)
    IN  Columns([i \in DOMAIN v.e |-> SexFloat(v.e[i])])

\* the tuple hms and dms return: sign * units, sign * minutes, sign * seconds
UnsignedTuple(v) ==
    LET Column(parts, j) ==
            [v EXCEPT !.e = [i \in DOMAIN parts |-> Mul(parts[i][1], parts[i][j])]]
        Columns(parts) == TupleV(<<Column(parts, 2), Column(parts, 3), Column(parts, 4)>>)
    IN  Columns([i \in DOMAIN v.e |-> SexFloat(v.e[i])])

\* what hstr and dstr return: one string, or a list of strings for an array
Strings(fmt, v, places) ==
    [k |-> IF v.k = "a" THEN "strlist" ELSE "str", rep |-> 1,
     e |-> [i \in DOMAIN v.e |-> Sfmt(fmt, v.e[i], places)]]

HourMethods == {"hms", "signed_hms", "hstr"}
DegreeMethods == {"dms", "signed_dms", "dstr"}
Methods == HourMethods \cup DegreeMethods

\* the unit family a method reports in
MethodUnit(name) == IF name \in HourMethods THEN "hours" ELSE "degrees"

\* what a method returns once its guard has passed, r the read of _hours or _degrees
MethodReturn(name, places, r) ==
    IF IsExc(r.v) THEN r
    ELSE CASE name \in {"hms", "dms"} -> [v |-> UnsignedTuple(r.v), o |-> r.o]
           [] name \in {"signed_hms", "signed_dms"} -> [v |-> SignedTuple(r.v), o |-> r.o]
           [] name = "hstr" -> [v |-> Strings("_hfmt", r.v, places), o |-> r.o]
           [] OTHER ->
                  IF r.o.signed = "absent" THEN [v |-> Exc("AttributeError"), o |-> r.o]
                  ELSE [v |-> Strings(IF r.o.signed = "True" THEN "_dsgn" ELSE "_dfmt",
                                      r.v, places),
                        o |-> r.o]

\* Method with its guard on whatever warn says
MethodAlwaysGuarded(o, name, warn, places) ==
    IF o.preference = "absent" THEN [v |-> Exc("AttributeError"), o |-> o]
    ELSE IF o.preference # MethodUnit(name) THEN [v |-> Exc("WrongUnitError"), o |-> o]
    ELSE MethodReturn(name, places,
                      ReadUnguarded(o, IF name \in HourMethods THEN "_hours" ELSE "_degrees"))

\* Angle.hms, signed_hms, hstr, dms, signed_dms, dstr (default format)
Method(o, name, warn, places) ==
    IF warn /\ o.preference = "absent" THEN [v |-> Exc("AttributeError"), o |-> o]
    ELSE IF warn /\ o.preference # MethodUnit(name) THEN [v |-> Exc("WrongUnitError"), o |-> o]
    ELSE MethodReturn(name, places,
                      ReadUnguarded(o, IF name \in HourMethods THEN "_hours" ELSE "_degrees"))

\* Angle.__str__: "Angle []" for an empty array, for an array of two or more
\* angles the text "<rep> values from <first> to <last>", or else one string
AngleStr(o) ==
    LET Text(r, fmt, places) ==
            IF IsExc(r.v) THEN r
            ELSE IF Len(r.v.e) >= 2
                 THEN [v |-> [k |-> "values", rep |-> Len(r.v.e),
                              e |-> <<Sfmt(fmt, r.v.e[1], places),
                                      Sfmt(fmt, r.v.e[Len(r.v.e)], places)>>],
                       o |-> r.o]
                 ELSE [v |-> [k |-> "str", rep |-> 1, e |-> <<Sfmt(fmt, r.v.e[1], places)>>],
                       o |-> r.o]
        Size(radians) ==
            IF IsExc(radians) THEN [v |-> radians, o |-> o]
            ELSE IF radians.e = <<>> THEN [v |-> [k |-> "Angle []", rep |-> 0, e |-> <<>>], o |-> o]
            ELSE IF o.preference = "absent" THEN [v |-> Exc("AttributeError"), o |-> o]
            ELSE IF o.preference = "degrees"
                 THEN IF o.signed = "absent"
                      THEN [v |-> Exc("AttributeError"), o |-> ReadUnguarded(o, "_degrees").o]
                      ELSE Text(ReadUnguarded(o, "_degrees"),
                                IF o.signed = "True" THEN "_dsgn" ELSE "_dfmt", 1)
            ELSE Text(ReadUnguarded(o, "_hours"), "_hfmt", 2)
    IN  Size(ReadAttr(o, "radians").v)

----------------------------------------------------------------------------
(* Names as Python sees them: strings of characters *)

\* the characters of the attribute and method names of the classes
Spelling(name) ==
    CASE name = "kW"         -> <<"k", "W">>
      [] name = "W"          -> <<"W">>
      [] name = "mW"         -> <<"m", "W">>
      [] name = "dBw"        -> <<"d", "B", "w">>
      [] name = "dBm"        -> <<"d", "B", "m">>
      [] name = "Hz"         -> <<"H", "z">>
      [] name = "KHz"        -> <<"K", "H", "z">>
      [] name = "MHz"        -> <<"M", "H", "z">>
      [] name = "GHz"        -> <<"G", "H", "z">>
      [] name = "au"         -> <<"a", "u">>
      [] name = "km"         -> <<"k", "m">>
      [] name = "m"          -> <<"m">>
      [] name = "cm"         -> <<"c", "m">>
      [] name = "mm"         -> <<"m", "m">>
      [] name = "au_per_d"   -> <<"a", "u", "_", "p", "e", "r", "_", "d">>
      [] name = "km_per_s"   -> <<"k", "m", "_", "p", "e", "r", "_", "s">>
      [] name = "m_per_s"    -> <<"m", "_", "p", "e", "r", "_", "s">>
      [] name = "radians"    -> <<"r", "a", "d", "i", "a", "n", "s">>
      [] name = "_hours"     -> <<"_", "h", "o", "u", "r", "s">>
      [] name = "_degrees"   -> <<"_", "d", "e", "g", "r", "e", "e", "s">>
      [] name = "hours"      -> <<"h", "o", "u", "r", "s">>
      [] name = "degrees"    -> <<"d", "e", "g", "r", "e", "e", "s">>
      [] name = "hms"        -> <<"h", "m", "s">>
      [] name = "signed_hms" -> <<"s", "i", "g", "n", "e", "d", "_", "h", "m", "s">>
      [] name = "hstr"       -> <<"h", "s", "t", "r">>
      [] name = "dms"        -> <<"d", "m", "s">>
      [] name = "signed_dms" -> <<"s", "i", "g", "n", "e", "d", "_", "d", "m", "s">>
      [] name = "dstr"       -> <<"d", "s", "t", "r">>
      [] OTHER               -> <<>>

\* name.startswith(c) and the two-character test (a + b) in name
StartsWith(chars, c) == Len(chars) > 0 /\ chars[1] = c
Contains(chars, a, b) == \E i \in 1..(Len(chars) - 1) : chars[i] = a /\ chars[i + 1] = b

\* WrongUnitError with the usual unit taken to be the requested one
WrongUnitErrorSameUnit(name) ==
    LET Message(unit, usual) ==
            <<"this", "angle", "is", "usually", "expressed", "in", usual, "not", unit,
              "if", "you", "want", "to", "use", unit, "anyway">>
            \o (IF name = unit
                THEN <<"then", "please", "use", "the", "attribute",
                       IF unit = "hours" THEN "_hours" ELSE "_degrees">>
                ELSE <<"then", "call", name, "with", "warn=False">>)
        Usual(unit) == Message(unit, unit)
    IN  Usual(IF StartsWith(Spelling(name), "h") \/ Contains(Spelling(name), "_", "h")
              THEN "hours" ELSE "degrees")

\* WrongUnitError.__init__(name): the words of the message
WrongUnitError(name) ==
    LET Message(unit, usual) ==
            <<"this", "angle", "is", "usually", "expressed", "in", usual, "not", unit,
              "if", "you", "want", "to", "use", unit, "anyway">>
            \o (IF name = unit
                THEN <<"then", "please", "use", "the", "attribute",
                       IF unit = "hours" THEN "_hours" ELSE "_degrees">>
                ELSE <<"then", "call", name, "with", "warn=False">>)
        Usual(unit) == Message(unit, IF unit = "degrees" THEN "hours" ELSE "degrees")
    IN  Usual(IF StartsWith(Spelling(name), "h") \/ Contains(Spelling(name), "_", "h")
              THEN "hours" ELSE "degrees")

\* the message of the exception an accessor called name raised: every raise of
\* WrongUnitError passes the accessor's own name
MessageOf(name, v) == IF v = Exc("WrongUnitError") THEN WrongUnitError(name) ELSE <<>>

\* ord(c) of the characters the names are spelt with
Ord(c) ==
    CASE c = "B" -> 66  [] c = "G" -> 71  [] c = "H" -> 72  [] c = "K" -> 75
      [] c = "M" -> 77  [] c = "W" -> 87  [] c = "_" -> 95  [] c = "a" -> 97
      [] c = "c" -> 99  [] c = "d" -> 100 [] c = "e" -> 101 [] c = "g" -> 103
      [] c = "h" -> 104 [] c = "i" -> 105 [] c = "k" -> 107 [] c = "m" -> 109
      [] c = "n" -> 110 [] c = "o" -> 111 [] c = "p" -> 112 [] c = "r" -> 114
      [] c = "s" -> 115 [] c = "u" -> 117 [] c = "w" -> 119 [] c = "z" -> 122
      [] OTHER   -> 0

\* c.islower() and the order of str: by code point, a proper prefix first
IsLower(c) == Ord(c) \in 97..122
RECURSIVE StrLess(_, _)
StrLess(a, b) ==
    IF b = <<>> THEN FALSE
    ELSE IF a = <<>> THEN TRUE
    ELSE IF Ord(Head(a)) # Ord(Head(b)) THEN Ord(Head(a)) < Ord(Head(b))
    ELSE StrLess(Tail(a), Tail(b))

\* sorted(names)
RECURSIVE Sorted(_)
Sorted(names) ==
    IF names = {} THEN <<>>
    ELSE LET Rest(least) == <<least>> \o Sorted(names \ {least})
         IN  Rest(CHOOSE n \in names :
                    \A k \in names \ {n} : StrLess(Spelling(n), Spelling(k)))

\* cls.__name__.lower()
Lower(cls) ==
    CASE cls = "Power"     -> "power"
      [] cls = "Frequency" -> "frequency"
      [] cls = "Distance"  -> "distance"
      [] cls = "Velocity"  -> "velocity"
      [] cls = "Angle"     -> "angle"
      [] OTHER             -> ""

\* the attrs of Unit.__getitem__: the keys of cls.__dict__ bound to a getset or
\* a reify whose first character is a lowercase letter, sorted
Attrs(cls) ==
    Sorted({k \in GetsetNames(cls) \cup ReifyNames(cls) : IsLower(Spelling(k)[1])})

\* Unit.__getitem__ and __iter__ always raise; the message is the advice
\* followed by one example, name.lower() "." attr, for each of the attrs
UnitGetItem(cls) ==
    <<"to", "use", "this", cls, "ask", "for", "its", "value", "in", "a",
      "particular", "unit">>
    \o [i \in DOMAIN Attrs(cls) |-> Lower(cls) \o "." \o Attrs(cls)[i]]

----------------------------------------------------------------------------
(* Arguments the constructors and methods are called with *)

MaxArgs == 2       \* keyword arguments populated in one constructor call
MaxPlaces == 1     \* places= of hstr and dstr

Populated(a, keys) == {k \in keys : a[k] # NoneV}
OrNone(S) == {NoneV} \cup S

\* powers that are powers of ten, so that their decibel views are exact
PowerVals == {F(Rat(1, 1000)), L(<<Int2Num(1), Int2Num(10)>>)}
DecibelVals == {F(Int2Num(30)), L(<<Int2Num(0), Int2Num(-10)>>)}
FrequencyVals == {F(Int2Num(1000)), L(<<Rat(1, 1000000), Int2Num(144)>>)}
DistanceVals == {F(Rat(-5, 2)), L(<<Int2Num(1), Int2Num(0)>>)}
VelocityVals == {F(Rat(-5, 2)), L(<<Int2Num(1), Int2Num(30)>>)}
\* radians that are rational parts of a turn, so that degrees and hours are rational:
\* a quarter turn, the zero angle, -7.5 degrees and a millionth of a degree below zero;
\* and no angles at all
RadianVals ==
    {L(<<Div(tau, Int2Num(4)), Zero, Div(tau, Int2Num(-48)), Div(tau, Int2Num(-360000000))>>),
     L(<<>>)}
\* -181.875 degrees, and a millionth of a degree below zero
DegreeVals == {F(Rat(-181875, 1000)), F(Rat(-1, 1000000))}
HourVals == {T(<<Int2Num(-1), Int2Num(2), Int2Num(3)>>)}
\* angle=: something that is not an Angle, and an Angle
AngleVals == {F(Int2Num(1)), AnAngle(F(Div(tau, Int2Num(4))))}

PowerKeys == {"kW", "W", "mW", "dBm", "dBw"}
PowerArgs ==
    {a \in [kW : OrNone(PowerVals), W : OrNone(PowerVals), mW : OrNone(PowerVals),
            dBm : OrNone(DecibelVals), dBw : OrNone(DecibelVals)] :
        Cardinality(Populated(a, PowerKeys)) <= MaxArgs}

FrequencyKeys == {"Hz", "KHz", "MHz", "GHz"}
FrequencyArgs ==
    {a \in [Hz : OrNone(FrequencyVals), KHz : OrNone(FrequencyVals),
            MHz : OrNone(FrequencyVals), GHz : OrNone(FrequencyVals)] :
        Cardinality(Populated(a, FrequencyKeys)) <= MaxArgs}

DistanceKeys == {"au", "km", "m", "cm", "mm"}
DistanceArgs ==
    {a \in [au : OrNone(DistanceVals), km : OrNone(DistanceVals),
            m : OrNone(DistanceVals), cm : OrNone(DistanceVals),
            mm : OrNone(DistanceVals)] :
        Cardinality(Populated(a, DistanceKeys)) <= MaxArgs}

VelocityKeys == {"au_per_d", "km_per_s"}
VelocityArgs ==
    {a \in [au_per_d : OrNone(VelocityVals), km_per_s : OrNone(VelocityVals)] :
        Cardinality(Populated(a, VelocityKeys)) <= MaxArgs}

AngleKeys == {"angle", "radians", "degrees", "hours"}
AngleArgs ==
    {a \in [angle : OrNone(AngleVals), radians : OrNone(RadianVals),
            degrees : OrNone(DegreeVals), hours : OrNone(HourVals),
            preference : {"None", "hours", "degrees"}, signed : {"True", "False"}] :
        /\ Cardinality(Populated(a, AngleKeys)) <= MaxArgs
        \* the empty array comes alone
        /\ a.radians = L(<<>>) => Populated(a, AngleKeys) = {"radians"}}

Keys(cls) ==
    CASE cls = "Power"     -> PowerKeys
      [] cls = "Frequency" -> FrequencyKeys
      [] cls = "Distance"  -> DistanceKeys
      [] cls = "Velocity"  -> VelocityKeys
      [] cls = "Angle"     -> AngleKeys
      [] OTHER             -> {}

\* values a unit's class-level constructor is called with
UnitVals(cls, name) ==
    CASE cls = "Power" /\ name \in {"dBw", "dBm"} -> DecibelVals
      [] cls = "Power"     -> PowerVals
      [] cls = "Frequency" -> FrequencyVals
      [] cls = "Distance"  -> DistanceVals
      [] cls = "Velocity"  -> VelocityVals
      [] OTHER             -> RadianVals

\* cls.__init__(self, **a)
InitOf(cls, a) ==
    CASE cls = "Power"     -> PowerInit(a)
      [] cls = "Frequency" -> FrequencyInit(a)
      [] cls = "Distance"  -> DistanceInit(a)
      [] cls = "Velocity"  -> VelocityInit(a)
      [] cls = "Angle"     -> AngleInit(a)
      [] OTHER             -> Raise("TypeError", <<"takes", "no", "arguments">>)

\* the parameters of cls.__init__ with their defaults
Defaults(cls) ==
    IF cls = "Angle"
    THEN [angle |-> NoneV, radians |-> NoneV, degrees |-> NoneV, hours |-> NoneV,
          preference |-> "None", signed |-> "False"]
    ELSE [k \in Keys(cls) |-> NoneV]

\* the names units.py binds at module level
ModuleNames ==
    Classes \cup {"UnpackingError", "Unit", "getset", "AngleRate", "Rate", "WrongUnitError"}

\* units.<name>(**kw): the name is looked up in the module, the keywords are
\* bound to the parameters of __init__, then __init__ runs
UnitsCall(name, kw) ==
    IF name \notin ModuleNames
    THEN Raise("AttributeError", <<"module", "link_engineering.units", "has", "no",
                                   "attribute", name>>)
    ELSE IF ~(DOMAIN kw \subseteq DOMAIN Defaults(name))
    THEN Raise("TypeError", <<"__init__", "got", "an", "unexpected", "keyword", "argument",
                              CHOOSE k \in DOMAIN kw \ DOMAIN Defaults(name) : TRUE>>)
    ELSE InitOf(name, [k \in DOMAIN Defaults(name) |->
                           IF k \in DOMAIN kw THEN kw[k] ELSE Defaults(name)[k]])

\* wavelengths in meters: C/1000 = 299792.458 and 0.02
WavelengthVals == {F(Div(C, Int2Num(1000))), F(Rat(1, 50))}

\* the calls of tests/test_units.py and tests/check_ant_t.py by name and keyword
CallNames == {"Frequency", "Temperature", "Gain"}
CallKeywords(name) ==
    CASE name = "Frequency" ->
             {[wl |-> w] : w \in WavelengthVals} \cup {[MHz |-> v] : v \in FrequencyVals}
      [] name = "Temperature" ->
             {[k |-> F(Rat(27315, 100))], [c |-> F(Int2Num(0))], [f |-> F(Int2Num(32))]}
      [] name = "Gain" -> {[a |-> F(Int2Num(1))], [dB |-> F(Int2Num(0))]}
      [] OTHER -> {}

----------------------------------------------------------------------------
(* State: one instance under observation *)

VARIABLES
    obj,    \* the instance, or NoObj
    ctor,   \* how it was constructed: [how, cls, a]
    res,    \* the last operation and what it returned or raised; again: the
            \* attribute read had been read with success before
    seen    \* per attribute, the value its first successful read returned

vars == <<obj, ctor, res, seen>>

NoCall == [op |-> "none", name |-> "", warn |-> FALSE, places |-> 0,
           again |-> FALSE, v |-> NoneV, msg |-> <<>>]
NoCtor == [how |-> "none", cls |-> "none", a |-> <<>>]
NoneSeen(cls) == [n \in AttrNames(cls) |-> Absent]

Init ==
    /\ obj = NoObj
    /\ ctor = NoCtor
    /\ res = NoCall
    /\ seen = NoneSeen("none")

\* what a constructor call leaves in ctor and res
Ctor(how, cls, a) == [how |-> how, cls |-> cls, a |-> a]
NewRes(cls, r) == [NoCall EXCEPT !.op = "new", !.name = cls, !.v = r.v, !.msg = r.msg]

NewPower ==
    /\ obj = NoObj
    /\ \E a \in PowerArgs :
        \E r \in {PowerInit(a)} :
            /\ obj' = r.o
            /\ ctor' = Ctor("kw", "Power", a)
            /\ res' = NewRes("Power", r)
            /\ seen' = NoneSeen(r.o.cls)

NewFrequency ==
    /\ obj = NoObj
    /\ \E a \in FrequencyArgs :
        \E r \in {FrequencyInit(a)} :
            /\ obj' = r.o
            /\ ctor' = Ctor("kw", "Frequency", a)
            /\ res' = NewRes("Frequency", r)
            /\ seen' = NoneSeen(r.o.cls)

NewDistance ==
    /\ obj = NoObj
    /\ \E a \in DistanceArgs :
        \E r \in {DistanceInit(a)} :
            /\ obj' = r.o
            /\ ctor' = Ctor("kw", "Distance", a)
            /\ res' = NewRes("Distance", r)
            /\ seen' = NoneSeen(r.o.cls)

NewVelocity ==
    /\ obj = NoObj
    /\ \E a \in VelocityArgs :
        \E r \in {VelocityInit(a)} :
            /\ obj' = r.o
            /\ ctor' = Ctor("kw", "Velocity", a)
            /\ res' = NewRes("Velocity", r)
            /\ seen' = NoneSeen(r.o.cls)

NewAngle ==
    /\ obj = NoObj
    /\ \E a \in AngleArgs :
        \E r \in {AngleInit(a)} :
            /\ obj' = r.o
            /\ ctor' = Ctor("kw", "Angle", a)
            /\ res' = NewRes("Angle", r)
            /\ seen' = NoneSeen(r.o.cls)

NewFromDegrees ==
    /\ obj = NoObj
    /\ \E deg \in DegreeVals \cup HourVals, signed \in {"True", "False"} :
        \E r \in {FromDegrees(deg, signed)} :
            /\ obj' = r.o
            /\ ctor' = Ctor("from_degrees", "Angle", [degrees |-> deg, signed |-> signed])
            /\ res' = NewRes("Angle", r)
            /\ seen' = NoneSeen(r.o.cls)

\* units.Frequency(wl=299792.458), units.Temperature(k=273.15), units.Gain(dB=0.0)
NewByName ==
    /\ obj = NoObj
    /\ \E name \in CallNames : \E kw \in CallKeywords(name) :
        \E r \in {UnitsCall(name, kw)} :
            /\ obj' = r.o
            /\ ctor' = Ctor("call", name, kw)
            /\ res' = NewRes(name, r)
            /\ seen' = NoneSeen(r.o.cls)

\* Distance.km(5.0) and the like
NewFromUnit ==
    /\ obj = NoObj
    /\ \E cls \in Classes : \E name \in GetsetNames(cls) : \E val \in UnitVals(cls, name) :
        \E r \in {GetsetNew(cls, name, val)} :
            /\ obj' = r.o
            /\ ctor' = Ctor("unit", cls, [unit |-> name, value |-> val])
            /\ res' = NewRes(cls, r)
            /\ seen' = NoneSeen(r.o.cls)

\* obj.<name>
Read ==
    /\ obj # NoObj
    /\ \E name \in AttrNames(obj.cls) :
        \E r \in {ReadAttr(obj, name)} :
            /\ obj' = r.o
            /\ res' = [NoCall EXCEPT !.op = "read", !.name = name, !.v = r.v,
                                     !.msg = MessageOf(name, r.v),
                                     !.again = seen[name] # Absent]
            /\ seen' = IF IsNum(r.v) /\ seen[name] = Absent
                       THEN [seen EXCEPT ![name] = r.v] ELSE seen
    /\ UNCHANGED ctor

\* obj.hms(warn), ..., obj.dstr(places, warn)
Call ==
    /\ obj.cls = "Angle"
    /\ \E name \in Methods, warn \in BOOLEAN :
       \E places \in IF name \in {"hstr", "dstr"} THEN 0..MaxPlaces ELSE {0} :
        \E r \in {Method(obj, name, warn, places)} :
            /\ obj' = r.o
            /\ res' = [NoCall EXCEPT !.op = "call", !.name = name, !.warn = warn,
                                     !.places = places, !.v = r.v,
                                     !.msg = MessageOf(name, r.v)]
    /\ UNCHANGED <<ctor, seen>>

\* the last reference to the instance goes away
\* str(obj) of an Angle
Str ==
    /\ obj.cls = "Angle"
    /\ \E r \in {AngleStr(obj)} :
        /\ obj' = r.o
        /\ res' = [NoCall EXCEPT !.op = "str", !.name = "__str__", !.v = r.v]
    /\ UNCHANGED <<ctor, seen>>

\* obj[i], and iter(obj) as in "for x in obj" or "x, y, z = obj"
Index ==
    /\ obj # NoObj
    /\ \E name \in {"__getitem__", "__iter__"} :
        res' = [NoCall EXCEPT !.op = "index", !.name = name,
                              !.v = Exc("UnpackingError"),
                              !.msg = UnitGetItem(obj.cls)]
    /\ UNCHANGED <<obj, ctor, seen>>

Del ==
    /\ obj # NoObj
    /\ obj' = NoObj
    /\ ctor' = NoCtor
    /\ res' = NoCall
    /\ seen' = NoneSeen("none")

Next ==
    \/ NewPower
    \/ NewFrequency
    \/ NewDistance
    \/ NewVelocity
    \/ NewAngle
    \/ NewFromDegrees
    \/ NewFromUnit
    \/ NewByName
    \/ Read
    \/ Call
    \/ Str
    \/ Index
    \/ Del

Spec == Init /\ [][Next]_vars

----------------------------------------------------------------------------
(* The module-level functions of units.py, each applied to an argument *)

\* hours and degrees to decompose: the examples of the docstrings, zero, values
\* half a unit of the last place above and below zero, a millionth below zero, and
\* 59' 59.96" which rounds up to the next degree
SexagesimalVals ==
    {Rat(181875, 1000), Rat(-181875, 1000), Rat(1205125, 100000), Rat(-1205125, 100000),
     Zero, Rat(1, 7200), Rat(-1, 7200), Rat(1, 72000), Rat(-1, 72000),
     Rat(-1, 1000000), Rat(89999, 90000), Rat(-89999, 90000)}

Formats == {"_dfmt", "_dsgn", "_hfmt"}

\* radians per day: one radian, one turn, a 48th of a turn backwards, none, -2.5
RateVals == {Int2Num(1), tau, Div(tau, Int2Num(-48)), Zero, Rat(-5, 2)}

AngleRateUnits == {"radians", "degrees", "arcminutes", "arcseconds", "mas"}
RatePeriods == {"per_day", "per_hour", "per_minute", "per_second"}

\* AngleRate.<unit> with mas computed as arcseconds are
AngleRateGetMasAsArcseconds(radians_per_day, unit) ==
    CASE unit = "radians"    -> radians_per_day
      [] unit = "degrees"    -> Mul(Div(radians_per_day, tau), Int2Num(360))
      [] unit = "arcminutes" -> Mul(Div(radians_per_day, tau), Int2Num(21600))
      [] OTHER               -> Mul(Div(radians_per_day, tau), Int2Num(1296000))

\* AngleRate.<unit>: the _per_day of the Rate the reify method returns
AngleRateGet(radians_per_day, unit) ==
    CASE unit = "radians"    -> radians_per_day
      [] unit = "degrees"    -> Mul(Div(radians_per_day, tau), Int2Num(360))
      [] unit = "arcminutes" -> Mul(Div(radians_per_day, tau), Int2Num(21600))
      [] unit = "arcseconds" -> Mul(Div(radians_per_day, tau), Int2Num(1296000))
      [] OTHER               -> Mul(Div(radians_per_day, tau), Int2Num(1296000000))

\* Rate.<period>
RateGet(per_day, period) ==
    CASE period = "per_day"    -> per_day
      [] period = "per_hour"   -> Div(per_day, Int2Num(24))
      [] period = "per_minute" -> Div(per_day, Int2Num(1440))
      [] OTHER                 -> Div(per_day, Int2Num(86400))

\* (units, minutes, seconds) with the signs of the docstring of _unsexagesimalize,
\* their positive counterparts and half a unit above and below a zero; and values
\* that are not tuples
TupleVals ==
    {T(<<Int2Num(u), Int2Num(m), Int2Num(sec)>>) :
        u \in {-1, 1}, m \in {-2, 2}, sec \in {-3, 3}}
    \cup {T(<<Zero, Int2Num(30), Zero>>), T(<<Zero, Int2Num(-30), Zero>>)}
PlainVals == {F(Rat(13, 4)), F(Rat(-13, 4)), L(<<Int2Num(1), Int2Num(-2), Int2Num(3)>>)}

\* safety.py: the exposure limits of Safety and the flags raised against them

\* a < b and a >= b for plain numbers
Less(a, b) == LET Below(fa, fb) == fa[1] * fb[2] < fb[1] * fa[2] IN Below(Frac(a), Frac(b))
AtLeast(a, b) == ~Less(a, b)

\* find_limits with the general-population formula taken from the start of the band
FindLimitsFromBandStart(freq) ==
    LET Set(l, mS, mE, mH, gS, gE, gH) ==
            [l EXCEPT !.mpe_S_limit = mS, !.mpe_E_limit = mE, !.mpe_H_limit = mH,
                      !.gp_S_limit = gS, !.gp_E_limit = gE, !.gp_H_limit = gH]
        \* if (freq >= 1500.0) and (freq < 100000)
        Above1500(l) ==
            IF AtLeast(freq, Int2Num(1500)) /\ Less(freq, Int2Num(100000))
            THEN Set(l, Int2Num(5), "--", "--", Int2Num(1), "--", "--")
            ELSE l
        \* if (freq >= 300.0) and (freq < 1500.0)
        Above300(l) ==
            Above1500(IF AtLeast(freq, Int2Num(300)) /\ Less(freq, Int2Num(1500))
                      THEN Set(l, Div(freq, Int2Num(300)), "--", "--",
                               Div(freq, Int2Num(1500)), "--", "--")
                      ELSE l)
        \* if (freq >= 30.0) and (freq < 300.0)
        Above30(l) ==
            Above300(IF AtLeast(freq, Int2Num(30)) /\ Less(freq, Int2Num(300))
                     THEN Set(l, Int2Num(1), Rat(614, 10), Rat(163, 1000),
                              Rat(2, 10), Rat(275, 10), Rat(73, 1000))
                     ELSE l)
        \* if freq >= 3.0, inside the band from 0.3 to 30
        Above3(l) ==
            Above30(IF Less(Rat(3, 10), freq) /\ Less(freq, Int2Num(30))
                       /\ AtLeast(freq, Int2Num(3))
                    THEN [l EXCEPT !.mpe_S_limit = Div(Int2Num(900), Mul(freq, freq)),
                                   !.mpe_E_limit = Div(Int2Num(1842), freq),
                                   !.mpe_H_limit = Div(Rat(489, 100), freq)]
                    ELSE l)
        \* if freq >= 1.34, inside the band from 0.3 to 30
        Above134(l) ==
            Above3(IF Less(Rat(3, 10), freq) /\ Less(freq, Int2Num(30))
                      /\ AtLeast(freq, Rat(3, 10))
                   THEN [l EXCEPT !.gp_S_limit = Div(Int2Num(180), Mul(freq, freq)),
                                  !.gp_E_limit = Div(Int2Num(824), freq),
                                  !.gp_H_limit = Div(Rat(219, 100), freq)]
                   ELSE l)
    IN  Above134([mpe_S_limit |-> Int2Num(100), mpe_E_limit |-> Int2Num(614),
                  mpe_H_limit |-> Rat(163, 100), gp_S_limit |-> Int2Num(100),
                  gp_E_limit |-> Int2Num(614), gp_H_limit |-> Rat(163, 100)])

\* Safety.find_limits: the six limits for freq in MHz ("--" where none is given)
FindLimits(freq) ==
    LET Set(l, mS, mE, mH, gS, gE, gH) ==
            [l EXCEPT !.mpe_S_limit = mS, !.mpe_E_limit = mE, !.mpe_H_limit = mH,
                      !.gp_S_limit = gS, !.gp_E_limit = gE, !.gp_H_limit = gH]
        \* if (freq >= 1500.0) and (freq < 100000)
        Above1500(l) ==
            IF AtLeast(freq, Int2Num(1500)) /\ Less(freq, Int2Num(100000))
            THEN Set(l, Int2Num(5), "--", "--", Int2Num(1), "--", "--")
            ELSE l
        \* if (freq >= 300.0) and (freq < 1500.0)
        Above300(l) ==
            Above1500(IF AtLeast(freq, Int2Num(300)) /\ Less(freq, Int2Num(1500))
                      THEN Set(l, Div(freq, Int2Num(300)), "--", "--",
                               Div(freq, Int2Num(1500)), "--", "--")
                      ELSE l)
        \* if (freq >= 30.0) and (freq < 300.0)
        Above30(l) ==
            Above300(IF AtLeast(freq, Int2Num(30)) /\ Less(freq, Int2Num(300))
                     THEN Set(l, Int2Num(1), Rat(614, 10), Rat(163, 1000),
                              Rat(2, 10), Rat(275, 10), Rat(73, 1000))
                     ELSE l)
        \* if freq >= 3.0, inside the band from 0.3 to 30
        Above3(l) ==
            Above30(IF Less(Rat(3, 10), freq) /\ Less(freq, Int2Num(30))
                       /\ AtLeast(freq, Int2Num(3))
                    THEN [l EXCEPT !.mpe_S_limit = Div(Int2Num(900), Mul(freq, freq)),
                                   !.mpe_E_limit = Div(Int2Num(1842), freq),
                                   !.mpe_H_limit = Div(Rat(489, 100), freq)]
                    ELSE l)
        \* if freq >= 1.34, inside the band from 0.3 to 30
        Above134(l) ==
            Above3(IF Less(Rat(3, 10), freq) /\ Less(freq, Int2Num(30))
                      /\ AtLeast(freq, Rat(134, 100))
                   THEN [l EXCEPT !.gp_S_limit = Div(Int2Num(180), Mul(freq, freq)),
                                  !.gp_E_limit = Div(Int2Num(824), freq),
                                  !.gp_H_limit = Div(Rat(219, 100), freq)]
                   ELSE l)
    IN  Above134([mpe_S_limit |-> Int2Num(100), mpe_E_limit |-> Int2Num(614),
                  mpe_H_limit |-> Rat(163, 100), gp_S_limit |-> Int2Num(100),
                  gp_E_limit |-> Int2Num(614), gp_H_limit |-> Rat(163, 100)])

\* Safety.test_limits: the flags of the near field, the far field and the ground
\* against the two power-density limits; the ground sees a hundredth of the near field
TestLimits(l, S_nf_mW, S_ff_mW) ==
    LET Flags(S) ==
            <<IF Less(l.mpe_S_limit, S) THEN "EXCEEDS MPE" ELSE "below MPE",
              IF Less(l.gp_S_limit, S) THEN "EXCEEDS GP" ELSE "below GP">>
    IN  Flags(S_nf_mW) \o Flags(S_ff_mW) \o Flags(Div(S_nf_mW, Int2Num(100)))

\* transmit frequencies in MHz: inside and at the edges of every band of find_limits
FreqVals ==
    {Rat(1, 10), Rat(3, 10), Int2Num(1), Rat(134, 100), Rat(27, 20),
     Int2Num(2), Int2Num(3), Int2Num(10), Int2Num(30), Int2Num(100), Int2Num(300),
     Int2Num(1000), Int2Num(1500), Int2Num(2000), Int2Num(100000)}

\* power densities in mW/cm^2 on either side of the limits
DensityVals == {Rat(1, 10), Int2Num(3), Rat(1001, 10), Int2Num(20000)}

\* the calls: the family of functions called and the arguments
FunArgs ==
    {Ctor("args", "sexagesimal", [value |-> F(x), places |-> p]) :
        x \in SexagesimalVals, p \in 0..MaxPlaces}
    \cup {Ctor("args", "AngleRate", [value |-> F(x), places |-> 0]) : x \in RateVals}
    \cup {Ctor("args", "unsexagesimalize", [value |-> v, places |-> 0]) :
              v \in TupleVals \cup PlainVals}
    \cup {Ctor("args", "nan", [value |-> F(NaN), places |-> p]) : p \in 0..MaxPlaces}
    \cup {Ctor("args", "Safety", [freq |-> f, S_nf_mW |-> nf, S_ff_mW |-> ff]) :
              f \in FreqVals, nf \in DensityVals, ff \in DensityVals}

FunInit ==
    /\ obj = NoObj
    /\ ctor \in FunArgs
    /\ res = NoCall
    /\ seen = NoneSeen("none")

\* _sexagesimalize_to_int(value, places)
ApplySexInt ==
    /\ res = NoCall
    /\ ctor.cls = "sexagesimal"
    /\ res' = [NoCall EXCEPT !.op = "apply", !.name = "_sexagesimalize_to_int",
                             !.places = ctor.a.places,
                             !.v = TupleV(SexInt(ctor.a.value.e[1], ctor.a.places))]
    /\ UNCHANGED <<obj, ctor, seen>>

\* _sexagesimalize_to_float(value)
ApplySexFloat ==
    /\ res = NoCall
    /\ ctor.cls = "sexagesimal"
    /\ res' = [NoCall EXCEPT !.op = "apply", !.name = "_sexagesimalize_to_float",
                             !.v = TupleV(SexFloat(ctor.a.value.e[1]))]
    /\ UNCHANGED <<obj, ctor, seen>>

\* _sfmt(fmt, value, places), also of a value that is not a number
ApplySfmt ==
    /\ res = NoCall
    /\ ctor.cls \in {"sexagesimal", "nan"}
    /\ \E fmt \in Formats :
        res' = [NoCall EXCEPT !.op = "apply", !.name = "_sfmt", !.places = ctor.a.places,
                              !.v = [k |-> "str", rep |-> 1,
                                     e |-> <<Sfmt(fmt, ctor.a.value.e[1], ctor.a.places)>>]]
    /\ UNCHANGED <<obj, ctor, seen>>

\* _unsexagesimalize(value)
ApplyUnsexagesimalize ==
    /\ res = NoCall
    /\ ctor.cls = "unsexagesimalize"
    /\ res' = [NoCall EXCEPT !.op = "apply", !.name = "_unsexagesimalize",
                             !.v = Unsexagesimalize(ctor.a.value)]
    /\ UNCHANGED <<obj, ctor, seen>>

\* AngleRate._from_radians_per_day(value).<unit>.<period>
ApplyAngleRate ==
    /\ res = NoCall
    /\ ctor.cls = "AngleRate"
    /\ \E unit \in AngleRateUnits, period \in RatePeriods :
        res' = [NoCall EXCEPT !.op = "rate", !.name = unit \o "." \o period,
                              !.v = F(RateGet(AngleRateGet(ctor.a.value.e[1], unit), period))]
    /\ UNCHANGED <<obj, ctor, seen>>

\* the end of Safety.__init__: find_limits() and then test_limits(), on the power
\* densities the link equations gave
ApplySafety ==
    /\ res = NoCall
    /\ ctor.cls = "Safety"
    /\ \E l \in {FindLimits(ctor.a.freq)} :
        res' = [NoCall EXCEPT !.op = "safety", !.name = "Safety",
                              !.v = [k |-> "Safety", rep |-> 1, e |-> <<l>>],
                              !.msg = TestLimits(l, ctor.a.S_nf_mW, ctor.a.S_ff_mW)]
    /\ UNCHANGED <<obj, ctor, seen>>

\* the caller takes the result and is ready for the next call
Return ==
    /\ res.op \in {"apply", "rate", "safety"}
    /\ res' = NoCall
    /\ UNCHANGED <<obj, ctor, seen>>

FunNext ==
    \/ ApplySexInt
    \/ ApplySexFloat
    \/ ApplySfmt
    \/ ApplyUnsexagesimalize
    \/ ApplyAngleRate
    \/ ApplySafety
    \/ Return

FunSpec == FunInit /\ [][FunNext]_vars

----------------------------------------------------------------------------
(* Properties *)

\* the unit a class stores its magnitude in: the getset without a core unit
CanonicalUnit(cls) == CHOOSE n \in GetsetNames(cls) : Getset(cls, n).core = "None"

\* the keyword inputs of the last constructor call
Inputs == IF ctor.how = "kw" THEN Populated(ctor.a, Keys(ctor.cls)) ELSE {}

\* C1: a keyword constructor called with none of its inputs raises ValueError and
\* returns no instance, and no instance exists without its canonical magnitude
C1_NoInputRaises ==
    /\ (res.op = "new" /\ ctor.how = "kw" /\ Inputs = {})
           => (res.v = Exc("ValueError") /\ obj = NoObj)
    /\ obj # NoObj => obj.d[CanonicalUnit(obj.cls)] # Absent

\* C2: a keyword constructor called with two of its inputs populated raises
\* ValueError and returns no instance
C2_TwoInputsRaise ==
    (res.op = "new" /\ ctor.how = "kw" /\ Cardinality(Inputs) >= 2)
        => (res.v = Exc("ValueError") /\ obj = NoObj)

\* the angle in hours or degrees, from the radians the instance holds
InUnit(o, unit) ==
    PyDiv(PyMulFloat(o.d["radians"], Int2Num(IF unit = "hours" THEN 24 ELSE 360)), tau)

\* C3: on an Angle whose preference is degrees (hours), reading degrees (hours)
\* returns the angle in that unit and reading hours (degrees) raises WrongUnitError
C3_PreferenceGuard ==
    (/\ res.op = "read"
     /\ obj.cls = "Angle"
     /\ res.name \in {"hours", "degrees"}
     /\ obj.preference \in {"hours", "degrees"})
        => IF res.name = obj.preference
           THEN res.v = InUnit(obj, res.name)
           ELSE res.v = Exc("WrongUnitError")

\* C4: hms, signed_hms, hstr, dms, signed_dms and dstr raise WrongUnitError exactly
\* when called with warn true on an Angle whose preference is the other unit family
C4_GuardedMethods ==
    res.op = "call" =>
        ((res.v = Exc("WrongUnitError"))
            <=> (res.warn /\ obj.preference \in {"hours", "degrees"}
                          /\ obj.preference # MethodUnit(res.name)))

\* C4 happens: a guarded call on an Angle of the other family raised
C4_Witness ==
    /\ res.op = "call"
    /\ res.warn
    /\ obj.preference # MethodUnit(res.name)
    /\ res.v = Exc("WrongUnitError")

\* the entries of the instance __dict__
Cached(o) == {n \in DOMAIN o.d : o.d[n] # Absent}

\* the unguarded view a guarded accessor of Angle reads, and caches on the way
Underlying(name) ==
    IF name = "hours" THEN {"_hours"} ELSE IF name = "degrees" THEN {"_degrees"} ELSE {}

\* C5: a read leaves every entry already cached as it is (the canonical magnitude
\* among them); the entries it adds are the one of the view read and, for the
\* guarded hours and degrees of Angle, the one of the unguarded view underneath
C5_ReadFrame ==
    [][res'.op = "read" =>
        /\ obj'.cls = obj.cls
        /\ obj'.preference = obj.preference
        /\ obj'.signed = obj.signed
        /\ \A n \in Cached(obj) : obj'.d[n] = obj.d[n]
        /\ Cached(obj') \subseteq Cached(obj) \cup {res'.name} \cup Underlying(res'.name)]_vars

\* C5 as stated: a read changes nothing but the cache entry of the view read
C5_OnlyOwnEntry ==
    [][res'.op = "read" =>
        \A n \in DOMAIN obj.d \ {res'.name} : obj'.d[n] = obj.d[n]]_vars

\* C5 happens: a first read has added an entry next to two that were there
C5_Witness ==
    /\ res.op = "read"
    /\ ~res.again
    /\ IsNum(res.v)
    /\ obj.d[res.name] = res.v
    /\ Cardinality(Cached(obj)) >= 3

\* C6: a read of a view that was read before returns the value the first read returned
C6_RepeatedRead ==
    (res.op = "read" /\ res.again) => res.v = seen[res.name]

\* C6 happens: a view is read again, another view having been read as well
C6_Witness ==
    /\ res.op = "read"
    /\ res.again
    /\ IsNum(res.v)
    /\ res.name # CanonicalUnit(obj.cls)
    /\ \E n \in DOMAIN seen \ {res.name} : seen[n] # Absent

\* a view's conversion strategy applied to the canonical magnitude of o
FromCanonical(o, name) ==
    IF name = CanonicalUnit(o.cls) THEN o.d[name]
    ELSE IF name \in GetsetNames(o.cls)
         THEN GetsetValue(o.cls, name, o.d[CanonicalUnit(o.cls)])
    ELSE IF name \in {"hours", "_hours"} THEN InUnit(o, "hours")
    ELSE InUnit(o, "degrees")

LinearUnits(cls) == GetsetNames(cls) \ {"dBw", "dBm", "radians"}

\* one unit, measured in the canonical unit of its class
UnitSize(cls, name) ==
    CASE name \in {"kW", "km"}          -> Int2Num(1000)
      [] name \in {"mW", "mm", "MHz"}   -> Rat(1, 1000)
      [] name = "cm"                    -> Rat(1, 100)
      [] name = "KHz"                   -> Rat(1, 1000000)
      [] name = "Hz"                    -> Rat(1, 1000000000)
      [] name = "au"                    -> AU_M
      [] name = "km_per_s"              -> Div(DAY_S, AU_KM)
      [] name = "m_per_s"               -> Div(DAY_S, AU_M)
      [] OTHER                          -> Int2Num(1)

\* v, given in unit from, expressed in unit to
Scaled(cls, v, from, to) ==
    [ToArray(v) EXCEPT
        !.e = [i \in DOMAIN v.e |-> Mul(v.e[i], Div(UnitSize(cls, from), UnitSize(cls, to)))]]

SameElements(v, w) == v.rep = w.rep /\ v.e = w.e

\* the decibel value a Power was made from, if it was made from one alone
SuppliedDecibels ==
    IF ctor.how = "kw" /\ Cardinality(Inputs) = 1 /\ Inputs \subseteq {"dBw", "dBm"}
    THEN {<<U, ToArray(ctor.a[U])>> : U \in Inputs}
    ELSE IF ctor.how = "unit" /\ ctor.a.unit \in {"dBw", "dBm"}
    THEN {<<ctor.a.unit, ToArray(ctor.a.value)>>}
    ELSE {}

\* C9: a Power made from dBw or dBm reads the supplied value as that view, and on
\* every Power W = 10^(dBw/10) and dBm = dBw + 30
C9_Decibels ==
    (obj # NoObj /\ obj.cls = "Power") =>
        LET Holds(W, dBw, dBm) ==
                /\ IsNum(dBw) /\ IsNum(dBm)
                /\ SameElements(W, NpPow10(PyDiv(dBw, Int2Num(10))))
                /\ dBm = PyAdd(dBw, Int2Num(30))
        IN  /\ Holds(obj.d["W"], ReadAttr(obj, "dBw").v, ReadAttr(obj, "dBm").v)
            /\ \A s \in SuppliedDecibels : ReadAttr(obj, s[1]).v = s[2]

\* C9 happens: a Power made from dBm has had its dBw read
C9_Witness ==
    /\ obj.cls = "Power"
    /\ \E s \in SuppliedDecibels : s[1] = "dBm"
    /\ res.op = "read"
    /\ res.name = "dBw"
    /\ IsNum(res.v)
    /\ obj.d["dBm"] = PyAdd(res.v, Int2Num(30))

\* C10: on every Frequency the keyword constructor returns, wl times the frequency
\* in hertz is the speed of light, element by element
C10_Wavelength ==
    (obj # NoObj /\ obj.cls = "Frequency" /\ ctor.how = "kw") =>
        LET Dual(wl, Hz) ==
                /\ IsNum(wl) /\ IsNum(Hz)
                /\ DOMAIN wl.e = DOMAIN Hz.e
                /\ \A i \in DOMAIN wl.e : Mul(wl.e[i], Hz.e[i]) = C
        IN  Dual(obj.d["wl"], ReadAttr(obj, "Hz").v)

\* C10 happens: a Frequency made from an array of megahertz holds its wavelengths
C10_Witness ==
    /\ obj.cls = "Frequency"
    /\ ctor.how = "kw"
    /\ Inputs = {"MHz"}
    /\ obj.d["wl"].k = "a"
    /\ Len(obj.d["wl"].e) = 2

\* the keywords of the last call by name
Keywords == IF ctor.how = "call" THEN DOMAIN ctor.a ELSE {}

\* v with every element divided by k
Over(v, k) == [v EXCEPT !.e = [i \in DOMAIN v.e |-> Div(v.e[i], k)]]

\* C11: Frequency(wl=w) returns an instance whose Hz is C/w, whose KHz, MHz and GHz
\* are that in their units, and whose wl is w
C11_FromWavelength ==
    (res.op = "new" /\ ctor.cls = "Frequency" /\ "wl" \in Keywords) =>
        /\ obj # NoObj
        /\ LET Views(Hz) ==
                   /\ Hz = PyRDiv(C, ctor.a.wl)
                   /\ ReadAttr(obj, "KHz").v = Over(Hz, Int2Num(1000))
                   /\ ReadAttr(obj, "MHz").v = Over(Hz, Int2Num(1000000))
                   /\ ReadAttr(obj, "GHz").v = Over(Hz, Int2Num(1000000000))
           IN  Views(ReadAttr(obj, "Hz").v)
        /\ ReadAttr(obj, "wl").v = ctor.a.wl

\* the views k, c and f of a Temperature, and a and dB of a Gain
TemperatureViews(o) == <<ReadAttr(o, "k").v, ReadAttr(o, "c").v, ReadAttr(o, "f").v>>
GainViews(o) == <<ReadAttr(o, "a").v, ReadAttr(o, "dB").v>>

\* C12: Temperature(k=), Temperature(c=) and Temperature(f=) return an instance
\* whose views satisfy c = k - 273.15 and f = c*9/5 + 32
C12_Temperature ==
    (res.op = "new" /\ ctor.cls = "Temperature") =>
        /\ obj # NoObj
        /\ LET Consistent(t) ==
                   /\ \A i \in 1..3 : IsNum(t[i])
                   /\ t[2] = PySub(t[1], Rat(27315, 100))
                   /\ t[3] = PyAdd(PyMulFloat(t[2], Rat(9, 5)), Int2Num(32))
           IN  Consistent(TemperatureViews(obj))
        /\ \A u \in Keywords : ReadAttr(obj, u).v = ctor.a[u]

\* C13: Gain(a=) and Gain(dB=) return an instance whose views satisfy
\* dB = 10*log10(a)
C13_Gain ==
    (res.op = "new" /\ ctor.cls = "Gain") =>
        /\ obj # NoObj
        /\ LET Inverses(g) ==
                   /\ IsNum(g[1]) /\ IsNum(g[2])
                   /\ g[2] = PyMulInt(NpLog10(g[1]), Int2Num(10))
           IN  Inverses(GainViews(obj))
        /\ \A u \in Keywords : ReadAttr(obj, u).v = ctor.a[u]

\* the words of a message
Words(msg) == {msg[i] : i \in DOMAIN msg}

\* C14: the ValueError a constructor raises when no input is supplied names every
\* parameter the constructor accepts
C14_MessageNamesParameters ==
    (res.op = "new" /\ ctor.how = "kw" /\ Inputs = {} /\ res.v = Exc("ValueError"))
        => Keys(ctor.cls) \subseteq Words(res.msg)

\* C15: the message of a WrongUnitError gives the preference of the angle as the
\* usual unit and the requested unit as the other one, and ends with the attribute
\* _hours or _degrees (for hours, degrees) or with the method called and warn=False
C15_WrongUnitMessage ==
    res.v = Exc("WrongUnitError") =>
        LET Names(unit) ==
                /\ res.msg[7] = obj.preference
                /\ res.msg[9] = unit
                /\ res.msg[15] = unit
                /\ IF res.op = "read"
                   THEN /\ Len(res.msg) = 22
                        /\ SubSeq(res.msg, 20, 21) = <<"the", "attribute">>
                        /\ res.msg[22] \in Underlying(res.name)
                   ELSE SubSeq(res.msg, 18, 21) = <<"call", res.name, "with", "warn=False">>
        IN  Names(IF res.op = "call" THEN MethodUnit(res.name) ELSE res.name)

\* C15 happens: a read of hours on an angle that prefers degrees has raised
C15_Witness ==
    /\ res.op = "read"
    /\ res.name = "hours"
    /\ res.v = Exc("WrongUnitError")
    /\ obj.preference = "degrees"
    /\ res.msg[22] = "_hours"

\* the unit accessors of a class that are public: bound to a getset or a reify
\* under a name without a leading underscore
PublicAccessors(cls) ==
    {k \in GetsetNames(cls) \cup ReifyNames(cls) : Spelling(k)[1] # "_"}

\* C16: indexing or iterating a quantity raises UnpackingError, and after the
\* advice the message lists exactly the public unit accessors of the type
C16_UnpackingMessage ==
    res.op = "index" =>
        /\ res.v = Exc("UnpackingError")
        /\ {res.msg[i] : i \in 13..Len(res.msg)}
               = {Lower(obj.cls) \o "." \o k : k \in PublicAccessors(obj.cls)}

\* what reading name returns on the instance the last keyword constructor call
\* would have made had its input U been the number x alone
ScalarView(U, x, name) ==
    ReadAttr(InitOf(ctor.cls, [ctor.a EXCEPT ![U] = F(x)]).o, name).v

\* v is a sequence of as many values as seq, the i-th one the view name of the
\* instance made from the i-th element of seq
Elementwise(v, U, seq, name) ==
    /\ v.k \in {"a", "l"}
    /\ v.rep = 1
    /\ Len(v.e) = Len(seq)
    /\ \A i \in DOMAIN seq : <<v.e[i]>> = ScalarView(U, seq[i], name).e

\* C17: an instance constructed from a sequence of n values in one of its units
\* exists, and each of its unit views is a sequence of n values, the i-th one being
\* what the view is for the i-th input alone
C17_Sequences ==
    (/\ ctor.how = "kw"
     /\ Cardinality(Inputs) = 1
     /\ \A U \in Inputs : ctor.a[U].k = "l" /\ ctor.a[U].e # <<>>) =>
        /\ obj # NoObj
        /\ \A U \in Inputs : \A name \in GetsetNames(ctor.cls) \cup ReifyNames(ctor.cls) :
               IsNum(ScalarView(U, ctor.a[U].e[1], name))
                   => Elementwise(ReadAttr(obj, name).v, U, ctor.a[U].e, name)

\* the instance the keyword constructor makes of the arguments of the last
\* class-level call, cls(unit=value)
KeywordTwin == InitOf(ctor.cls, [Defaults(ctor.cls) EXCEPT ![ctor.a.unit] = ctor.a.value]).o

\* C18: the instance a unit name called on the class returns reads the given value
\* as that unit, holds the value converted to the canonical unit, and has the
\* canonical magnitude the keyword constructor gives for the same unit and value
C18_ClassLevel ==
    ctor.how = "unit" =>
        /\ obj # NoObj
        /\ ReadAttr(obj, ctor.a.unit).v = ToArray(ctor.a.value)
        /\ FromCanonical(obj, ctor.a.unit) = ToArray(ctor.a.value)
        /\ ctor.a.unit \in Keys(ctor.cls) =>
               /\ KeywordTwin # NoObj
               /\ obj.d[CanonicalUnit(ctor.cls)] = KeywordTwin.d[CanonicalUnit(ctor.cls)]

\* the tuple signed_hms (for hms) or signed_dms (for dms) returns on o
SignedParts(o, name) ==
    Method(o, IF name \in HourMethods THEN "signed_hms" ELSE "signed_dms", FALSE, 0).v

\* C19: the sign signed_hms and signed_dms return is +1 or -1 and the three other
\* components are not negative; hms and dms return these three components, each
\* multiplied by the sign
C19_Signs ==
    (res.op = "call" /\ res.v.k = "tuple") =>
        IF res.name \in {"signed_hms", "signed_dms"}
        THEN \A i \in DOMAIN res.v.e[1].e :
                 /\ res.v.e[1].e[i] \in {Int2Num(1), Int2Num(-1)}
                 /\ \A j \in 2..4 : res.v.e[j].e[i].n >= 0
        ELSE LET Times(s) ==
                     \A j \in 1..3 : \A i \in DOMAIN res.v.e[j].e :
                         res.v.e[j].e[i] = Mul(s.e[1].e[i], s.e[j + 1].e[i])
             IN  Times(SignedParts(obj, res.name))

\* the degree renderings of the last operation, each with the angle in degrees
\* it renders and the places it was rendered to: what dstr returned, or str of one
\* angle that prefers degrees
DegreeTexts ==
    IF res.op = "call" /\ res.name = "dstr" /\ res.v.k \in {"str", "strlist"}
    THEN {<<InUnit(obj, "degrees").e[i], res.v.e[i], res.places>> : i \in DOMAIN res.v.e}
    ELSE IF res.op = "str" /\ res.v.k = "str" /\ obj.preference = "degrees"
    THEN {<<InUnit(obj, "degrees").e[1], res.v.e[1], 1>>}
    ELSE {}

\* the text a rendering starts with when negative says whether the sign is minus
SignShown(signed, negative) ==
    IF negative THEN "-" ELSE IF signed = "True" THEN "+" ELSE ""

\* C20, by the sign of the angle itself: a degree rendering starts with "-" for a
\* negative angle, and for
\* a non-negative one with "+" when signed is true and with no sign when it is false
C20_SignOfAngle ==
    \A t \in DegreeTexts : t[2].lead = SignShown(obj.signed, t[1].n < 0)

\* a at places decimal places of a second of arc rounds to less than zero
RoundsBelowZero(a, places) ==
    Add(Mul(a, Int2Num(7200 * Pow10Int(places))), Int2Num(1)).n < 0

\* C20: a degree rendering starts with "-" for an angle that rounds to less than
\* zero at the places shown, and otherwise with "+" when signed is true and with no
\* sign when it is false
C20_SignOfRounded ==
    \A t \in DegreeTexts : t[2].lead = SignShown(obj.signed, RoundsBelowZero(t[1], t[3]))

\* C20 happens: dstr of a signed array has rendered one angle with "-" and a negative
\* angle that rounds to zero with "+"
C20_Witness ==
    /\ res.op = "call"
    /\ res.name = "dstr"
    /\ obj.signed = "True"
    /\ \E t \in DegreeTexts : t[2].lead = "-"
    /\ \E t \in DegreeTexts : t[1].n < 0 /\ t[2].lead = "+"

\* k is y rounded to the nearest integer, a half rounded up
IsRoundedHalfUp(k, y) ==
    LET Between(f) == 2 * k * f[2] - f[2] <= 2 * f[1] /\ 2 * f[1] < 2 * k * f[2] + f[2]
    IN  Between(Frac(y))

\* C21: _sexagesimalize_to_int(v, p) returns minutes and seconds in 0..59, a
\* fraction in 0..10^p - 1 and, with the sign, the count v * 3600 * 10^p rounded to
\* the nearest integer, a half rounded up; the minutes and seconds _sfmt displays
\* are never 60
C21_SexagesimalInt ==
    /\ res.name = "_sexagesimalize_to_int" =>
           LET Right(x, power) ==
                   /\ x[2] >= 0
                   /\ x[3] \in 0..59
                   /\ x[4] \in 0..59
                   /\ x[5] \in 0..(power - 1)
                   /\ IsRoundedHalfUp(x[1] * (((x[2] * 60 + x[3]) * 60 + x[4]) * power + x[5]),
                                      Mul(ctor.a.value.e[1], Int2Num(3600 * power)))
           IN  Right(res.v.e, Pow10Int(res.places))
    /\ res.name = "_sfmt" /\ ctor.cls = "sexagesimal" =>
           res.v.e[1].m \in 0..59 /\ res.v.e[1].s \in 0..59

\* C21 happens: 181.875 degrees at one place has been rendered 181deg 52' 30.0"
C21_Witness ==
    /\ res.name = "_sfmt"
    /\ ctor.a = [value |-> F(Rat(181875, 1000)), places |-> 1]
    /\ <<res.v.e[1].sign, res.v.e[1].h, res.v.e[1].m, res.v.e[1].s, res.v.e[1].fraction>>
           = <<"", 181, 52, 30, 0>>

\* a is a whole number; a is in the half-open interval from lo to hi
IsWhole(a) == IsPlain(a) /\ a.x >= 0 /\ a.d = 1
InRange(a, lo, hi) == Sub(a, Int2Num(lo)).n >= 0 /\ Sub(a, Int2Num(hi)).n < 0

\* C22: _sexagesimalize_to_float(v) returns whole units and minutes, minutes and
\* seconds in [0, 60), and sign * (units + minutes/60 + seconds/3600) = v exactly;
\* 12.05125 gives (1, 12, 3, 4.5) and -12.05125 gives (-1, 12, 3, 4.5)
C22_SexagesimalFloat ==
    res.name = "_sexagesimalize_to_float" =>
        LET Right(v, x) ==
                /\ IsWhole(x[2]) /\ x[2].n >= 0
                /\ IsWhole(x[3]) /\ InRange(x[3], 0, 60)
                /\ InRange(x[4], 0, 60)
                /\ Mul(x[1], Add(x[2], Add(Div(x[3], Int2Num(60)), Div(x[4], Int2Num(3600))))) = v
                /\ v = Rat(1205125, 100000)
                       => x = <<Int2Num(1), Int2Num(12), Int2Num(3), Rat(9, 2)>>
                /\ v = Rat(-1205125, 100000)
                       => x = <<Int2Num(-1), Int2Num(12), Int2Num(3), Rat(9, 2)>>
        IN  Right(ctor.a.value.e[1], res.v.e)

\* C22 happens: -12.05125 has been decomposed, with seconds that are not whole
C22_Witness ==
    /\ res.name = "_sexagesimalize_to_float"
    /\ ctor.a.value = F(Rat(-1205125, 100000))
    /\ res.v.e[1] = Int2Num(-1)
    /\ ~IsWhole(res.v.e[4])

\* how many of each angular unit make a turn, and how many of each period a day
PerTurn(unit) ==
    CASE unit = "degrees"    -> Int2Num(360)
      [] unit = "arcminutes" -> Int2Num(360 * 60)
      [] unit = "arcseconds" -> Int2Num(360 * 60 * 60)
      [] unit = "mas"        -> Mul(Int2Num(360 * 60 * 60), Int2Num(1000))
      [] OTHER               -> tau
PerDay(period) ==
    CASE period = "per_hour"   -> 24
      [] period = "per_minute" -> 24 * 60
      [] period = "per_second" -> 24 * 60 * 60
      [] OTHER                 -> 1

\* C23: for an AngleRate of r radians per day, the rate in each angular unit per day
\* is r scaled by 1, 360/tau, 21600/tau, 1296000/tau, 1.296e9/tau, and per hour,
\* minute and second it is that divided by 24, 1440 and 86400
C23_AngleRates ==
    res.op = "rate" =>
        \A unit \in AngleRateUnits, period \in RatePeriods :
            res.name = unit \o "." \o period =>
                res.v = F(Mul(Mul(ctor.a.value.e[1], Div(PerTurn(unit), tau)),
                              Rat(1, PerDay(period))))

\* C23 happens: the rate of one turn per day has been read in mas per second
C23_Witness ==
    /\ res.op = "rate"
    /\ res.name = "mas.per_second"
    /\ ctor.a.value = F(tau)
    /\ res.v = F(Int2Num(15000))

\* text is a sexagesimal rendering of element i of the angle in its preferred unit
IsRendering(text, i) ==
    \E fmt \in IF obj.preference = "hours" THEN {"_hfmt"} ELSE {"_dfmt", "_dsgn"} :
        text = Sfmt(fmt, InUnit(obj, obj.preference).e[i], text.places)

\* C24: str of an Angle with two or more radians values is "N values from <first>
\* to <last>" with N the number of values and the renderings of the first and the
\* last one in the preferred unit; with no value it is "Angle []", and with one
\* value one rendering
C24_StrOfAngle ==
    (res.op = "str" /\ obj.d["radians"] # Absent) =>
        LET Summary(n) ==
                IF n = 0 THEN res.v.k = "Angle []"
                ELSE IF n >= 2
                THEN /\ res.v.k = "values"
                     /\ res.v.rep = n
                     /\ Len(res.v.e) = 2
                     /\ IsRendering(res.v.e[1], 1)
                     /\ IsRendering(res.v.e[2], n)
                ELSE /\ res.v.k = "str"
                     /\ Len(res.v.e) = 1
                     /\ IsRendering(res.v.e[1], 1)
        IN  Summary(Len(obj.d["radians"].e))

\* |units| + |minutes|/60 + |seconds|/3600 of a tuple of three
Magnitude(e) ==
    Add(AbsNum(e[1]), Add(Div(AbsNum(e[2]), Int2Num(60)), Div(AbsNum(e[3]), Int2Num(3600))))

\* C25, with sign(units) the sign of the number units, 0 for 0: _unsexagesimalize of
\* (units, minutes, seconds) is sign(units) * (|units| + |minutes|/60 + |seconds|/3600),
\* and a value that is not a tuple is returned unchanged
C25_SignOfUnits ==
    res.name = "_unsexagesimalize" =>
        IF ctor.a.value.k = "t"
        THEN res.v = F(Mul(Int2Num(Sign(ctor.a.value.e[1])), Magnitude(ctor.a.value.e)))
        ELSE res.v = ctor.a.value

\* C25: _unsexagesimalize of (units, minutes, seconds) is
\* |units| + |minutes|/60 + |seconds|/3600, negated when units is less than zero (a
\* zero units counts as positive); (-1, 2, 3), (-1, -2, 3) and (-1, -2, -3) give the
\* same value; a value that is not a tuple is returned unchanged
C25_Unsexagesimalize ==
    res.name = "_unsexagesimalize" =>
        IF ctor.a.value.k = "t"
        THEN /\ res.v = F(Mul(Int2Num(IF ctor.a.value.e[1].n < 0 THEN -1 ELSE 1),
                              Magnitude(ctor.a.value.e)))
             /\ ctor.a.value.e[1] = Int2Num(-1) => res.v = F(Rat(-3723, 3600))
        ELSE res.v = ctor.a.value

\* C25 happens: (-1, -2, 3) has been interpreted as -1.034167
C25_Witness ==
    /\ res.name = "_unsexagesimalize"
    /\ ctor.a.value = T(<<Int2Num(-1), Int2Num(-2), Int2Num(3)>>)
    /\ res.v = F(Rat(-3723, 3600))

\* the guarded attribute of the unit family an Angle does not prefer
OtherUnit(o) == IF o.preference = "degrees" THEN "hours" ELSE "degrees"

\* an Angle has nothing cached under the guarded attribute of the other unit, and
\* a read of that attribute has raised WrongUnitError
GuardStands ==
    (obj.cls = "Angle" /\ obj.preference \in {"hours", "degrees"}) =>
        /\ obj.d[OtherUnit(obj)] = Absent
        /\ (res.op = "read" /\ res.name = OtherUnit(obj)) => res.v = Exc("WrongUnitError")

\* C26: on an Angle that prefers degrees (hours), whatever was read or called
\* before, a read of hours (degrees) raises WrongUnitError, and a read that raises
\* it leaves the instance as it was
C26_NoWayAround ==
    /\ []GuardStands
    /\ [][(res'.op = "read" /\ res'.v = Exc("WrongUnitError")) => obj' = obj]_vars

\* C26 happens: _hours is cached and hstr was called on an Angle that prefers
\* degrees, and the read of hours after that has raised
C26_Witness ==
    /\ obj.preference = "degrees"
    /\ obj.d["_hours"] # Absent
    /\ obj.d["_degrees"] # Absent
    /\ res.op = "read"
    /\ res.name = "hours"
    /\ res.v = Exc("WrongUnitError")

\* C27: an instance a class-level unit constructor returns has what the keyword
\* constructor sets besides the units (wl, with wl times the hertz view the speed of
\* light, on a Frequency; preference and signed on an Angle), and every attribute
\* that can be read on the keyword-built instance can be read on it
C27_SameAttributes ==
    (ctor.how = "unit" /\ obj # NoObj) =>
        /\ obj.cls = "Frequency" =>
               /\ IsNum(obj.d["wl"])
               /\ obj.d["wl"] = PyRDiv(C, ReadAttr(obj, "Hz").v)
        /\ obj.cls = "Angle" => obj.preference # "absent" /\ obj.signed # "absent"
        /\ (ctor.a.unit \in Keys(ctor.cls) /\ KeywordTwin # NoObj) =>
               \A name \in AttrNames(ctor.cls) :
                   ~IsExc(ReadAttr(KeywordTwin, name).v) => ~IsExc(ReadAttr(obj, name).v)

\* the input the keyword constructor of Angle made the angle from: the first one
\* supplied of angle, radians, degrees, hours
MadeFrom(a) ==
    IF a.angle # NoneV THEN "angle"
    ELSE IF a.radians # NoneV THEN "radians"
    ELSE IF a.degrees # NoneV THEN "degrees"
    ELSE IF a.hours # NoneV THEN "hours"
    ELSE "nothing"

\* C28: the preference of an Angle is the preference supplied; with none supplied
\* it is hours exactly when the angle was made from the hours input and degrees
\* otherwise, also when made from another Angle; from_degrees gives degrees
C28_Preference ==
    (obj # NoObj /\ obj.cls = "Angle") =>
        /\ ctor.how = "kw" =>
               obj.preference = IF ctor.a.preference # "None" THEN ctor.a.preference
                                ELSE IF MadeFrom(ctor.a) = "hours" THEN "hours"
                                ELSE "degrees"
        /\ ctor.how = "from_degrees" => obj.preference = "degrees"

\* the general-population limit is not above the occupational one, and every
\* field flagged EXCEEDS MPE is flagged EXCEEDS GP as well
LimitsOrdered ==
    /\ AtLeast(res.v.e[1].mpe_S_limit, res.v.e[1].gp_S_limit)
    /\ \A i \in {1, 3, 5} : res.msg[i] = "EXCEEDS MPE" => res.msg[i + 1] = "EXCEEDS GP"

\* C29, for every frequency: the general-population power-density limit is never
\* above the occupational limit, and a field flagged EXCEEDS MPE is flagged
\* EXCEEDS GP
C29_EveryFrequency == res.op = "safety" => LimitsOrdered

\* C29: at every frequency below 1.34 MHz or with a square of at least 1.8 the
\* general-population limit is not above the occupational limit and a field flagged
\* EXCEEDS MPE is flagged EXCEEDS GP; from 1.34 MHz up to there the
\* general-population limit 180/f^2 is above the occupational limit of 100
C29_LimitsOrdered ==
    res.op = "safety" =>
        IF \/ Less(ctor.a.freq, Rat(134, 100))
           \/ AtLeast(ctor.a.freq, Int2Num(2))
           \/ AtLeast(Mul(ctor.a.freq, ctor.a.freq), Rat(18, 10))
        THEN LimitsOrdered
        ELSE /\ res.v.e[1].mpe_S_limit = Int2Num(100)
             /\ Less(Int2Num(100), res.v.e[1].gp_S_limit)

\* C29 happens: at 2000 MHz a near field of 100.1 mW/cm^2 exceeds both limits
\* and a far field of 3 mW/cm^2 only the general-population one
C29_Witness ==
    /\ res.op = "safety"
    /\ ctor.a.freq = Int2Num(2000)
    /\ res.v.e[1].mpe_S_limit = Int2Num(5)
    /\ res.v.e[1].gp_S_limit = Int2Num(1)
    /\ res.msg = <<"EXCEEDS MPE", "EXCEEDS GP", "below MPE", "EXCEEDS GP",
                   "below MPE", "EXCEEDS GP">>

\* C30: _sfmt shows the minus sign exactly when the value rounds to less than zero
\* at the places asked for; a negative value that rounds to zero is rendered with
\* every field zero and without a minus sign; a value that is not a number is
\* rendered 'nan' and is not decomposed
C30_MinusOfRounded ==
    res.name = "_sfmt" =>
        LET Right(a, r) ==
                IF isnan(a) THEN r = [text |-> "nan"]
                ELSE /\ (r.sign = "-") <=> RoundsBelowZero(a, res.places)
                     /\ (r.lead = "-") <=> RoundsBelowZero(a, res.places)
                     /\ a.n < 0 /\ ~RoundsBelowZero(a, res.places)
                            => <<r.h, r.m, r.s, r.fraction>> = <<0, 0, 0, 0>>
        IN  Right(ctor.a.value.e[1], res.v.e[1])

\* C30 happens: minus half a second of arc at no decimal places has been rendered
\* as zero without a minus sign
C30_Witness ==
    /\ res.name = "_sfmt"
    /\ ctor.a = [value |-> F(Rat(-1, 7200)), places |-> 0]
    /\ res.v.e[1].sign = ""
    /\ res.v.e[1].lead \in {"", "+"}
    /\ <<res.v.e[1].h, res.v.e[1].m, res.v.e[1].s, res.v.e[1].fraction>> = <<0, 0, 0, 0>>

====
